---- MODULE Spec2Model ----
\* Tag-mark reconciliation of the karomia-frontend editor: the zustand store of
\* src/src/stores/tagStore.ts driving a ProseMirror document through tiptap,
\* the helpers of src/src/lib/tag-removal-utils.ts, and the deferred registry
\* clean-up callbacks the removal operations schedule.
EXTENDS Integers, Sequences, FiniteSets, TLC

\* ------------------------------------------------------------------ bounds

\* Number of characters of the paragraph.
MaxLen == 2
\* Largest value the clock behind Date.now() takes.
MaxClock == 2
\* Largest number of registry entries.
MaxTags == 2
\* Largest number of pending clean-up callbacks.
MaxTimers == 1

\* ------------------------------------------------------------ the document

\* The editor is read-only (editable: false): the text never changes, only its
\* marks.  Token i of Layout covers the ProseMirror positions [i-1, i).
Layout == <<"open">> \o [i \in 1..MaxLen |-> "char"] \o <<"close">>

DocSize == Len(Layout)

\* Positions p whose token [p, p+1) is a character.
TextPos == {p \in 0..(DocSize - 1) : Layout[p + 1] = "char"}

\* Positions a text selection can start or end at (inside a paragraph).
InlinePos == {p \in 0..DocSize : p \in TextPos \/ (p - 1) \in TextPos}

\* Date.now() rendered into the id of a created tag.
ClockIds == <<"tag-1", "tag-2", "tag-3", "tag-4">>

\* An id of loaded content that holds another id as a substring.
LoadedIds == {"tag-12"}

Ids == {ClockIds[i] : i \in 1..Len(ClockIds)} \cup LoadedIds

\* What the creation dialog can hand in.
Names == {"NameA"}
Colors == {"#3B82F6"}

\* "Tag ${id}", the placeholder name of an id without a registry entry.
PlaceholderName ==
  [id \in Ids |->
     CASE id = "tag-1" -> "Tag tag-1"
       [] id = "tag-2" -> "Tag tag-2"
       [] id = "tag-3" -> "Tag tag-3"
       [] id = "tag-12" -> "Tag tag-12"
       [] OTHER -> "Tag tag-4"]

\* The characters of an id, for the substring match of a CSS [attr*=...] selector.
IdText ==
  [id \in Ids |->
     CASE id = "tag-1" -> <<"t", "a", "g", "-", "1">>
       [] id = "tag-2" -> <<"t", "a", "g", "-", "2">>
       [] id = "tag-3" -> <<"t", "a", "g", "-", "3">>
       [] id = "tag-12" -> <<"t", "a", "g", "-", "1", "2">>
       [] OTHER -> <<"t", "a", "g", "-", "4">>]

\* Text without a taggedSpan mark.
NoMark == [dataTag |-> <<>>, class |-> "", style |-> <<>>, title |-> <<>>]

\* No registry entry found.
NoTag == [id |-> "", name |-> "", color |-> "", isHighlighted |-> FALSE]

NoSel == [from |-> 0, to |-> 0]

\* No helper call recorded.
NoCall == [fn |-> "none"]

\* Largest number of tooltip elements in the page.
MaxTooltips == 3

\* The tooltip hook before its effect ran.
NoTip == [mounted |-> FALSE]

\* The store's content fields before loadContent: content "", no error, not
\* loading; conversions counts the runs of the markdown conversion.
NoLoad ==
  [content |-> <<>>, isContentLoading |-> FALSE, contentError |-> "null",
   conversions |-> 0]

\* The context menu before any request: closed, on no element.
NoContextMenu == [isOpen |-> FALSE, taggedElement |-> 0]

\* The bulk removal dialog before any request.
NoBulkRemovalDialog == [isOpen |-> FALSE]

\* A paragraph of letters, and one that ends in a space.
PlainText == [p \in TextPos |-> "a"]
SpacedText == [p \in TextPos |-> IF p = MaxLen THEN " " ELSE "a"]
Texts == {PlainText, SpacedText}

VARIABLES
  marks,         \* editor.state.doc: the taggedSpan mark of every character
  tags,          \* the registry, a list of {id, name, color, isHighlighted}
  selectedText,  \* the stored selection, NoSel for null
  showTagDialog, \* whether the tag dialog is open
  now,           \* the clock behind Date.now()
  timers,        \* pending 100 ms clean-up callbacks, oldest first
  last,          \* the operation that led to this state, with its arguments and result
  content,       \* the HTML the editor is given: the span element around every character
  effectPending, \* whether the editor component's content effect is due to run
  call,          \* the latest call of a helper function, with its arguments and result
  text,          \* doc.textBetween: the character at every text position
  contextMenu, \* the context menu: whether it is open, and the chunk it was opened on
  bulkRemovalDialog, \* the bulk removal dialog: whether it is open
  tip, \* the tooltip hook: its closure variables, the tooltips in the page and the pointer
  editor, \* the store's editor: the number of the Editor object, 0 for null
  editors, \* every Editor object constructed so far: live or destroyed
  staleTimers, \* how many of the pending callbacks, oldest first, hold an editor that was destroyed
  storage, \* localStorage's item karomia_tags
  load  \* the store's content, isContentLoading and contentError

vars == <<marks, tags, selectedText, showTagDialog, now, timers, last,
          content, effectPending, call, text,
          contextMenu,
          bulkRemovalDialog,
          tip,
          editor,
          editors,
          staleTimers,
          storage,
          load>>

\* ------------------------------------------------------- sequence helpers

Range(s) == {s[i] : i \in 1..Len(s)}

Includes(s, x) == \E i \in 1..Len(s) : s[i] = x

\* Array.prototype.filter keeping the elements outside a list.
Without(s, r) == SelectSeq(s, LAMBDA x : ~Includes(r, x))

\* Array.prototype.join on ids: the ids with the separator between them.
RECURSIVE Join(_, _)
Join(ids, sep) ==
  IF Len(ids) = 0 THEN <<>>
  ELSE IF Len(ids) = 1 THEN <<ids[1]>>
  ELSE <<ids[1], sep>> \o Join(Tail(ids), sep)

\* String.prototype.split(sep).filter(Boolean) on an attribute whose ids hold
\* no separator character.
Split(attr, sep) == SelectSeq(attr, LAMBDA a : a # sep)

\* ------------------------------------------------------------ the registry

\* tags.find((t) => t.id === id)
\* A lookup that falls back to the first entry when the id has none.
FindTagOrFirst(reg, id) ==
  IF \E i \in 1..Len(reg) : reg[i].id = id
  THEN reg[CHOOSE i \in 1..Len(reg) : reg[i].id = id]
  ELSE IF reg = <<>> THEN NoTag ELSE reg[1]

FindTag(reg, id) ==
  IF \E i \in 1..Len(reg) : reg[i].id = id
  THEN reg[CHOOSE i \in 1..Len(reg) :
             reg[i].id = id /\ \A j \in 1..(i - 1) : reg[j].id # id]
  ELSE NoTag

RegIds(reg) == {reg[i].id : i \in 1..Len(reg)}

\* removeTag: tags.filter((tag) => tag.id !== tagId)
\* A removal that drops the last entry whatever its id.
RemoveTagFromDropsLast(reg, id) == SubSeq(reg, 1, Len(reg) - 1)

RemoveTagFrom(reg, id) == SelectSeq(reg, LAMBDA t : t.id # id)

\* setTags((prev) => prev.filter((tag) => !ids.includes(tag.id)))
RemoveTagsFrom(reg, ids) == SelectSeq(reg, LAMBDA t : ~Includes(ids, t.id))

\* -------------------------------------------------- ProseMirror primitives

\* A text node is a maximal run of characters of one paragraph with equal marks.
IsNodeStart(m, p) == p \in TextPos /\ ((p - 1) \notin TextPos \/ m[p - 1] # m[p])

NodeEnd(m, p) ==
  CHOOSE e \in (p + 1)..DocSize :
    /\ \A q \in p..(e - 1) : q \in TextPos /\ m[q] = m[p]
    /\ (e \notin TextPos \/ m[e] # m[p])

\* The text nodes in document order, as doc.descendants visits them.
NodeStarts(m) == {p \in TextPos : IsNodeStart(m, p)}

\* doc.resolve(pos).marks() for an inclusive mark: inside a text node its mark,
\* at a node boundary the mark of the node before, and the mark of the node
\* after only when nothing precedes the position in its paragraph.
ResolveMarks(m, pos) ==
  IF (pos - 1) \in TextPos THEN m[pos - 1]
  ELSE IF pos \in TextPos THEN m[pos]
  ELSE NoMark

\* doc.rangeHasMark(from, to, taggedSpan)
RangeHasMark(m, from, to) == \E p \in TextPos : from <= p /\ p < to /\ m[p] # NoMark

\* tr.addMark(from, to, mark): marks of one type exclude each other.
AddMark(m, from, to, mk) ==
  [p \in TextPos |-> IF from <= p /\ p < to THEN mk ELSE m[p]]

\* tr.removeMark(from, to, mark) with a mark instance: only equal marks go.
RemoveMark(m, from, to, mk) ==
  [p \in TextPos |-> IF from <= p /\ p < to /\ m[p] = mk THEN NoMark ELSE m[p]]

\* tiptap's setMark over the selection from..to, every attribute given.
SetTaggedSpan(m, from, to, mk) == AddMark(m, from, to, mk)

\* The rendered chunks: one span element per marked text node.
Chunks(m) == {p \in NodeStarts(m) : m[p] # NoMark}

\* extractTagInfoFromElement / the ids a mark's data-tag holds.
TagIdsOf(mk) == Split(mk.dataTag, " ")

\* ------------------------------------------------------- the history record

\* The last store operation: its name, the ids it was called with, the
\* selection it applied them to (apply operations), what it returned, and
\* whether it changed the document.
NoOp ==
  [op |-> "init", ids |-> <<>>, from |-> 0, to |-> 0, ok |-> FALSE,
   changed |-> FALSE]

Did(op, ids, from, to, ok, newMarks) ==
  [op |-> op, ids |-> ids, from |-> from, to |-> to, ok |-> ok,
   changed |-> (newMarks # marks)]

\* ------------------------------------------- TagPersistenceService

\* A serialisation that leaves isHighlighted out.
StringifyTagWithoutHighlight(tag) ==
  <<<<"id", tag.id>>, <<"name", tag.name>>, <<"color", tag.color>>>>

\* JSON.stringify of one entry: its members as (key, text of the value) pairs.
StringifyTag(tag) ==
  <<<<"id", tag.id>>, <<"name", tag.name>>, <<"color", tag.color>>,
    <<"isHighlighted", IF tag.isHighlighted THEN "true" ELSE "false">>>>

JSONStringify(reg) == [i \in 1..Len(reg) |-> StringifyTag(reg[i])]

HasMember(obj, key) == \E k \in 1..Len(obj) : obj[k][1] = key

Member(obj, key) == obj[CHOOSE k \in 1..Len(obj) : obj[k][1] = key][2]

\* JSON.parse of one entry; a member that is missing reads as undefined, which
\* is "" for a text and FALSE for isHighlighted.
ParseTag(obj) ==
  [id |-> IF HasMember(obj, "id") THEN Member(obj, "id") ELSE "",
   name |-> IF HasMember(obj, "name") THEN Member(obj, "name") ELSE "",
   color |-> IF HasMember(obj, "color") THEN Member(obj, "color") ELSE "",
   isHighlighted |-> HasMember(obj, "isHighlighted") /\ Member(obj, "isHighlighted") = "true"]

JSONParse(json) == [i \in 1..Len(json) |-> ParseTag(json[i])]

\* localStorage without the item karomia_tags.
NoItem == [present |-> FALSE, item |-> <<>>]

\* TagPersistenceService.saveTags: the item karomia_tags after the call.
SaveTags(reg) == [present |-> TRUE, item |-> JSONStringify(reg)]

\* TagPersistenceService.loadTags: saved ? JSON.parse(saved) : [].
LoadTags(saved) == IF saved.present THEN JSONParse(saved.item) ELSE <<>>

\* -------------------------------------------------------------------- Init

Init ==
  /\ marks = [p \in TextPos |-> NoMark]
  /\ tags = <<>>
  /\ selectedText = NoSel
  /\ showTagDialog = FALSE
  /\ now = 1
  /\ timers = <<>>
  /\ last = NoOp
  /\ content = [p \in TextPos |-> NoMark]
  /\ effectPending = FALSE
  /\ call = NoCall
  /\ text = PlainText
  /\ contextMenu = NoContextMenu
  /\ bulkRemovalDialog = NoBulkRemovalDialog
  /\ tip = NoTip
  /\ editor = 1
  /\ editors = <<"live">>
  /\ staleTimers = 0
  /\ storage = NoItem
  /\ load = NoLoad

\* ----------------------------------------------------------------- actions

\* Time passes.
Tick ==
  /\ now < MaxClock
  /\ now' = now + 1
  /\ UNCHANGED <<marks, tags, selectedText, showTagDialog, timers, last, content, effectPending, call, text, contextMenu, bulkRemovalDialog, tip, editor, editors, staleTimers, storage, load>>

\* The mouseup handler: a non-empty selection is stored and the dialog opens.
\* doc.textBetween(from, to).trim().length = 0
Blank(from, to) == \A p \in from..(to - 1) : text[p] = " "

\* One mouseup event runs the handler of editorProps, which stores the
\* selection and opens the dialog unless the selected text is blank, and then
\* the handler of the tagSelection plugin, which hands every non-empty
\* selection to onTextSelection, wired to setSelectedText (OnTextSelection).
OnTextSelection(from, to) == [from |-> from, to |-> to]

MouseUp(from, to) ==
  /\ from < to
  /\ selectedText' = OnTextSelection(from, to)
  /\ showTagDialog' = (showTagDialog \/ ~Blank(from, to))
  /\ UNCHANGED <<marks, tags, now, timers, last, content, effectPending, call, text, contextMenu, bulkRemovalDialog, tip, editor, editors, staleTimers, storage, load>>

\* The presentation applyTagToSelection computes for allTagIds.
ApplyStyle(allTagIds, tag, reg) ==
  IF Len(allTagIds) > 1
  THEN <<"gradient">> \o
       [i \in 1..Len(allTagIds) |->
          IF FindTag(reg, allTagIds[i]) # NoTag
          THEN FindTag(reg, allTagIds[i]).color ELSE tag.color]
  ELSE <<"single", tag.color>>

ApplyTitle(allTagIds, tag, reg) ==
  IF Len(allTagIds) > 1
  THEN [i \in 1..Len(allTagIds) |->
          IF FindTag(reg, allTagIds[i]) # NoTag
          THEN FindTag(reg, allTagIds[i]).name ELSE "Unknown"]
  ELSE <<tag.name>>

\* The tag ids applyTagToSelection reads at the selection.
ExistingTagIds(m, from, to) ==
  IF RangeHasMark(m, from, to) /\ ResolveMarks(m, from) # NoMark
  THEN TagIdsOf(ResolveMarks(m, from))
  ELSE <<>>

\* The document after applyTagToSelection(tag) with registry reg.
ApplyToDoc(m, sel, tag, reg) ==
  LET existingTagIds == ExistingTagIds(m, sel.from, sel.to)
      allTagIds == Append(existingTagIds, tag.id)
  IN IF Includes(existingTagIds, tag.id) THEN m
     ELSE SetTaggedSpan(m, sel.from, sel.to,
            [dataTag |-> Join(allTagIds, " "),
             class |-> "my-tag",
             style |-> ApplyStyle(allTagIds, tag, reg),
             title |-> ApplyTitle(allTagIds, tag, reg)])

\* createTag: a new registry entry with the clock's id, applied to the selection.
CreateTag(name, color) ==
  /\ selectedText # NoSel
  /\ Len(tags) < MaxTags
  /\ LET newTag == [id |-> ClockIds[now], name |-> name, color |-> color,
                    isHighlighted |-> FALSE]
         newTags == Append(tags, newTag)
     IN /\ tags' = newTags
        /\ marks' = ApplyToDoc(marks, selectedText, newTag, newTags)
        /\ last' = Did("createTag", <<newTag.id>>, selectedText.from, selectedText.to,
                       TRUE, ApplyToDoc(marks, selectedText, newTag, newTags))
  /\ selectedText' = NoSel
  /\ showTagDialog' = FALSE
  /\ UNCHANGED <<now, timers, content, effectPending, call, text, contextMenu, bulkRemovalDialog, tip, editor, editors, staleTimers, load>>
  /\ storage' = SaveTags(tags')

\* assignExistingTag: the registry's entry for tagId, applied to the selection.
AssignExistingTag(tagId) ==
  /\ selectedText # NoSel
  /\ IF FindTag(tags, tagId) # NoTag
     THEN /\ marks' = ApplyToDoc(marks, selectedText, FindTag(tags, tagId), tags)
          /\ selectedText' = NoSel
          /\ showTagDialog' = FALSE
          /\ last' = Did("assignExistingTag", <<tagId>>, selectedText.from,
                         selectedText.to, TRUE,
                         ApplyToDoc(marks, selectedText, FindTag(tags, tagId), tags))
     ELSE /\ last' = Did("assignExistingTag", <<tagId>>, selectedText.from,
                         selectedText.to, FALSE, marks)
          /\ UNCHANGED <<marks, selectedText, showTagDialog, content, effectPending, call, text, contextMenu, bulkRemovalDialog, tip, editor, editors, staleTimers, storage, load>>
  /\ UNCHANGED <<tags, now, timers, content, effectPending, call, text, contextMenu, bulkRemovalDialog, tip, editor, editors, staleTimers, storage, load>>

\* generateUpdatedTagStyle(remainingTagIds, tags)
GenerateUpdatedTagStyle(remainingTagIds, reg) ==
  IF Len(remainingTagIds) = 0
  THEN [style |-> <<>>, title |-> <<>>, class |-> ""]
  ELSE IF Len(remainingTagIds) = 1 /\ FindTag(reg, remainingTagIds[1]) # NoTag
  THEN [style |-> <<"outer", FindTag(reg, remainingTagIds[1]).color>>,
        title |-> <<FindTag(reg, remainingTagIds[1]).name>>,
        class |-> "my-tag outer-chunk"]
  ELSE LET lastTag == FindTag(reg, remainingTagIds[Len(remainingTagIds)])
       IN [style |-> <<"inner", IF lastTag # NoTag THEN lastTag.color ELSE "#3B82F6">>,
           title |-> [i \in 1..Len(remainingTagIds) |->
                        IF FindTag(reg, remainingTagIds[i]) # NoTag
                        THEN FindTag(reg, remainingTagIds[i]).name
                        ELSE PlaceholderName[remainingTagIds[i]]],
           class |-> "my-tag inner-chunk"]

\* The mark the store's removal operations create for the ids that remain.
RemainingMark(newTagIds, reg) ==
  [dataTag |-> Join(newTagIds, " "),
   class |-> "my-tag",
   style |-> GenerateUpdatedTagStyle(newTagIds, reg).style,
   title |-> GenerateUpdatedTagStyle(newTagIds, reg).title]

\* One entry of a removal's change list: the old mark goes, and a mark for the
\* remaining ids (when there are any) takes its place.
RewriteNode(m, from, to, mk, newTagIds, reg) ==
  IF Len(newTagIds) > 0
  THEN AddMark(RemoveMark(m, from, to, mk), from, to, RemainingMark(newTagIds, reg))
  ELSE RemoveMark(m, from, to, mk)

\* changes.reverse().forEach(...): the collected nodes (positions and marks of
\* the document before the transaction), last first, on the transaction's doc.
RECURSIVE ApplyChanges(_, _, _, _, _)
ApplyChanges(tr, doc, starts, removed, reg) ==
  IF starts = {} THEN tr
  ELSE LET p == CHOOSE x \in starts : \A y \in starts : y <= x
       IN ApplyChanges(
            RewriteNode(tr, p, NodeEnd(doc, p), doc[p],
                        Without(TagIdsOf(doc[p]), removed), reg),
            doc, starts \ {p}, removed, reg)

\* The node filter of removeTagFromEditor(tagId, fromPos, toPos).
InRemovalRange(pos, ranged, fromPos, toPos) ==
  ~ranged \/ ~(pos < fromPos \/ pos > toPos)

\* The document after removeTagFromEditor; ranged is FALSE when no range is given.
RemoveTagFromEditor(m, reg, tagId, ranged, fromPos, toPos) ==
  LET changes == {p \in NodeStarts(m) :
                    /\ InRemovalRange(p, ranged, fromPos, toPos)
                    /\ m[p] # NoMark
                    /\ Includes(TagIdsOf(m[p]), tagId)}
  IN ApplyChanges(m, m, changes, <<tagId>>, reg)

\* A document removal that dispatches nothing.
RemoveTagsFromDocumentDocSkipped(m, reg, tagIdsToRemove) == m

\* The document after removeTagsFromDocument(tagIdsToRemove).
RemoveTagsFromDocumentDoc(m, reg, tagIdsToRemove) ==
  LET changes == {p \in NodeStarts(m) :
                    /\ m[p] # NoMark
                    /\ \E i \in 1..Len(tagIdsToRemove) :
                         Includes(TagIdsOf(m[p]), tagIdsToRemove[i])}
  IN ApplyChanges(m, m, changes, tagIdsToRemove, reg)

\* A validation that lets an empty removal list through.
ValidateTagRemovalEmptyAccepted(tagIds, tagsToRemove) ==
  \A i \in 1..Len(tagsToRemove) : Includes(tagIds, tagsToRemove[i])

\* validateTagRemoval(tagIds, tagsToRemove).isValid
ValidateTagRemoval(tagIds, tagsToRemove) ==
  /\ Len(tagsToRemove) # 0
  /\ \A i \in 1..Len(tagsToRemove) : Includes(tagIds, tagsToRemove[i])

\* validateTagRemoval(tagIds, tagsToRemove).warnings, each warning by its kind
\* and the ids its text lists.
ValidateTagRemovalWarnings(tagIds, tagsToRemove) ==
  LET invalidTags == SelectSeq(tagsToRemove, LAMBDA tagId : ~Includes(tagIds, tagId))
  IN IF Len(tagsToRemove) = 0
     THEN <<[kind |-> "No tags selected for removal", ids |-> <<>>]>>
     ELSE (IF Len(tagsToRemove) = Len(tagIds)
           THEN <<[kind |-> "Removing all tags will untagged this text chunk completely",
                   ids |-> <<>>]>>
           ELSE <<>>)
          \o (IF Len(invalidTags) > 0
              THEN <<[kind |-> "Tags not found in this chunk", ids |-> invalidTags]>>
              ELSE <<>>)

\* The mark removeTagsFromChunk looks up at the chunk's first position.
ChunkMark(m, targetPos) == ResolveMarks(m, targetPos)

\* The document after the store's removeTagsFromChunk on the chunk at targetPos.
RemoveTagsFromChunkDoc(m, reg, tagIdsToRemove, targetPos) ==
  LET currentTagIds == TagIdsOf(m[targetPos])
      remainingTagIds == Without(currentTagIds, tagIdsToRemove)
      mk == ChunkMark(m, targetPos)
  IN IF ValidateTagRemoval(currentTagIds, tagIdsToRemove) /\ mk # NoMark
     THEN RewriteNode(m, targetPos, NodeEnd(m, targetPos), mk, remainingTagIds, reg)
     ELSE m

\* Whether the store's removeTagsFromChunk returns true.
RemoveTagsFromChunkOk(m, tagIdsToRemove, targetPos) ==
  /\ ValidateTagRemoval(TagIdsOf(m[targetPos]), tagIdsToRemove)
  /\ ChunkMark(m, targetPos) # NoMark

\* The text of a data-tag attribute, character by character.
RECURSIVE AttrText(_)
AttrText(attr) ==
  IF Len(attr) = 0 THEN <<>>
  ELSE (IF attr[1] \in Ids THEN IdText[attr[1]] ELSE <<attr[1]>>) \o AttrText(Tail(attr))

IsSubstring(a, b) ==
  \E i \in 0..(Len(b) - Len(a)) : SubSeq(b, i + 1, i + Len(a)) = a

\* editorElement.querySelectorAll(`[data-tag*="${tagId}"]`).length
CountTagInstances(m, tagId) ==
  Cardinality({p \in Chunks(m) : IsSubstring(IdText[tagId], AttrText(m[p].dataTag))})

\* A clean-up that does not look for remaining instances.
TagsToCleanupUnchecked(m, ids) == ids

\* The ids a clean-up callback removes from the registry.
TagsToCleanup(m, ids) == SelectSeq(ids, LAMBDA id : CountTagInstances(m, id) = 0)

\* The ids the operations are called with.
UsedIds == {ClockIds[i] : i \in 1..MaxClock}

\* Duplicate-free id lists, in clock order.
RECURSIVE ListOf(_)
ListOf(S) ==
  IF S = {} THEN <<>>
  ELSE LET i == CHOOSE k \in 1..Len(ClockIds) :
                  ClockIds[k] \in S /\ \A j \in 1..(k - 1) : ClockIds[j] \notin S
       IN <<ClockIds[i]>> \o ListOf(S \ {ClockIds[i]})

RemovalLists == {ListOf(S) : S \in SUBSET UsedIds}

\* removeTagFromTextChunk(tagId, element) on the chunk starting at pos: the tag
\* goes from the chunk's range and a clean-up callback is scheduled.
RemoveTagFromTextChunk(tagId, pos) ==
  /\ editor # 0
  /\ pos \in Chunks(marks)
  /\ Len(timers) < MaxTimers
  /\ marks' = RemoveTagFromEditor(marks, tags, tagId, TRUE, pos, NodeEnd(marks, pos))
  /\ timers' = Append(timers, <<tagId>>)
  /\ last' = Did("removeTagFromTextChunk", <<tagId>>, 0, 0, TRUE,
                 RemoveTagFromEditor(marks, tags, tagId, TRUE, pos, NodeEnd(marks, pos)))
  /\ UNCHANGED <<tags, selectedText, showTagDialog, now, content, effectPending, call, text, contextMenu, bulkRemovalDialog, tip, editor, editors, staleTimers, storage, load>>

\* The 100 ms callback: a tag without a rendered instance leaves the registry.
\* The callback looks for instances in editor.view.dom of the editor it
\* captured when it was scheduled.  When that editor has been destroyed in the
\* meantime the outcome depends on what the destroyed view still holds (the old
\* spans, nothing, or an error): any of the ids may be found without instance.
FireCleanup ==
  /\ Len(timers) > 0
  /\ \E tagsToCleanup \in
          IF staleTimers = 0
          THEN {TagsToCleanup(marks, Head(timers))}
          ELSE {SelectSeq(Head(timers), LAMBDA id : id \in gone) :
                  gone \in SUBSET Range(Head(timers))} :
       /\ tags' = RemoveTagsFrom(tags, tagsToCleanup)
       /\ storage' = IF tagsToCleanup # <<>> THEN SaveTags(tags') ELSE storage
  /\ timers' = Tail(timers)
  /\ staleTimers' = IF staleTimers > 0 THEN staleTimers - 1 ELSE 0
  /\ last' = Did("cleanup", Head(timers), 0, 0, TRUE, marks)
  /\ UNCHANGED <<marks, selectedText, showTagDialog, now, content, effectPending, call, text, contextMenu, bulkRemovalDialog, tip, editor, editors, load>>

\* The store's removeTagsFromChunk(tagIdsToRemove, targetElement).
RemoveTagsFromChunk(tagIdsToRemove, pos) ==
  /\ pos \in Chunks(marks)
  /\ marks' = RemoveTagsFromChunkDoc(marks, tags, tagIdsToRemove, pos)
  /\ last' = Did("removeTagsFromChunk", tagIdsToRemove, 0, 0,
                 RemoveTagsFromChunkOk(marks, tagIdsToRemove, pos),
                 RemoveTagsFromChunkDoc(marks, tags, tagIdsToRemove, pos))
  /\ UNCHANGED <<tags, selectedText, showTagDialog, now, timers, content, effectPending, call, text, contextMenu, bulkRemovalDialog, tip, editor, editors, staleTimers, storage, load>>

\* The hook's removeTagsFromChunk (useTagRemoval): the first tagged node that
\* nodesBetween finds in the chunk's range is rewritten, with the class the
\* style helper gives.
HookRemoveTagsFromChunkDoc(m, reg, tagIdsToRemove, targetPos) ==
  LET remainingTagIds == Without(TagIdsOf(m[targetPos]), tagIdsToRemove)
      to == NodeEnd(m, targetPos)
      removed == RemoveMark(m, targetPos, to, m[targetPos])
  IN IF ~ValidateTagRemoval(TagIdsOf(m[targetPos]), tagIdsToRemove) THEN m
     ELSE IF Len(remainingTagIds) = 0 THEN removed
     ELSE AddMark(removed, targetPos, to,
            [dataTag |-> Join(remainingTagIds, " "),
             class |-> GenerateUpdatedTagStyle(remainingTagIds, reg).class,
             style |-> GenerateUpdatedTagStyle(remainingTagIds, reg).style,
             title |-> GenerateUpdatedTagStyle(remainingTagIds, reg).title])

\* The hook's removal schedules one clean-up callback for all removed ids.
HookRemoveTagsFromChunk(tagIdsToRemove, pos) ==
  /\ pos \in Chunks(marks)
  /\ marks' = HookRemoveTagsFromChunkDoc(marks, tags, tagIdsToRemove, pos)
  /\ IF ValidateTagRemoval(TagIdsOf(marks[pos]), tagIdsToRemove)
     THEN /\ Len(timers) < MaxTimers
          /\ timers' = Append(timers, tagIdsToRemove)
     ELSE UNCHANGED timers
  /\ last' = Did("hookRemoveTagsFromChunk", tagIdsToRemove, 0, 0,
                 ValidateTagRemoval(TagIdsOf(marks[pos]), tagIdsToRemove),
                 HookRemoveTagsFromChunkDoc(marks, tags, tagIdsToRemove, pos))
  /\ UNCHANGED <<tags, selectedText, showTagDialog, now, content, effectPending, call, text, contextMenu, bulkRemovalDialog, tip, editor, editors, staleTimers, storage, load>>

\* removeTagsFromDocument(tagIdsToRemove): the registry loses the ids only when
\* the document changed.
RemoveTagsFromDocument(tagIdsToRemove) ==
  LET newMarks == RemoveTagsFromDocumentDoc(marks, tags, tagIdsToRemove)
      hasChanges == \E p \in Chunks(marks) :
                      \E i \in 1..Len(tagIdsToRemove) :
                        Includes(TagIdsOf(marks[p]), tagIdsToRemove[i])
  IN /\ marks' = newMarks
     /\ tags' = IF hasChanges THEN RemoveTagsFrom(tags, tagIdsToRemove) ELSE tags
     /\ last' = Did("removeTagsFromDocument", tagIdsToRemove, 0, 0, hasChanges,
                   newMarks)
     /\ UNCHANGED <<selectedText, showTagDialog, now, timers, content, effectPending, call, text, contextMenu, bulkRemovalDialog, tip, editor, editors, staleTimers, load>>
     /\ storage' = IF hasChanges THEN SaveTags(tags') ELSE storage

\* The registry and the document after deleteTagEntirely(tagId).
DeleteTagEntirelyTags(reg, tagId) == RemoveTagFrom(reg, tagId)

\* A delete that reaches only the nodes up to the paragraph's first character.
DeleteTagEntirelyDocRanged(m, reg, tagId) ==
  RemoveTagFromEditor(m, DeleteTagEntirelyTags(reg, tagId), tagId, TRUE, 0, 1)

DeleteTagEntirelyDoc(m, reg, tagId) ==
  RemoveTagFromEditor(m, DeleteTagEntirelyTags(reg, tagId), tagId, FALSE, 0, 0)

DeleteTagEntirely(tagId) ==
  /\ tags' = DeleteTagEntirelyTags(tags, tagId)
  /\ marks' = DeleteTagEntirelyDoc(marks, tags, tagId)
  /\ last' = Did("deleteTagEntirely", <<tagId>>, 0, 0, TRUE,
                 DeleteTagEntirelyDoc(marks, tags, tagId))
  /\ UNCHANGED <<selectedText, showTagDialog, now, timers, content, effectPending, call, text, contextMenu, bulkRemovalDialog, tip, editor, editors, staleTimers, load>>
  /\ storage' = SaveTags(tags')

\* bulkRemoveFromDocument: deleteTagEntirely for each id in turn.
RECURSIVE BulkDeleteTags(_, _)
BulkDeleteTags(reg, ids) ==
  IF Len(ids) = 0 THEN reg
  ELSE BulkDeleteTags(DeleteTagEntirelyTags(reg, Head(ids)), Tail(ids))

\* A bulk deletion whose document changes stop after the first id.
BulkDeleteDocFirstOnly(m, reg, ids) ==
  IF Len(ids) = 0 THEN m ELSE DeleteTagEntirelyDoc(m, reg, Head(ids))

RECURSIVE BulkDeleteDoc(_, _, _)
BulkDeleteDoc(m, reg, ids) ==
  IF Len(ids) = 0 THEN m
  ELSE BulkDeleteDoc(DeleteTagEntirelyDoc(m, reg, Head(ids)),
                     DeleteTagEntirelyTags(reg, Head(ids)), Tail(ids))

BulkRemoveFromDocument(tagIdsToRemove) ==
  /\ tags' = BulkDeleteTags(tags, tagIdsToRemove)
  /\ marks' = BulkDeleteDoc(marks, tags, tagIdsToRemove)
  /\ last' = Did("bulkRemoveFromDocument", tagIdsToRemove, 0, 0, TRUE,
                 BulkDeleteDoc(marks, tags, tagIdsToRemove))
  /\ UNCHANGED <<selectedText, showTagDialog, now, timers, content, effectPending, call, text, contextMenu, bulkRemovalDialog, tip, editor, editors, staleTimers, load>>
  /\ storage' = IF tagIdsToRemove # <<>> THEN SaveTags(tags') ELSE storage

\* bulkRemoveFromChunk: removeTagFromTextChunk(tagId, element) for each id in
\* turn with the element the dialog was opened on. The view renders a span anew
\* when its mark changed, so after a removal that rewrote the chunk's mark the
\* element is no longer in the editor and the walker of the later calls does
\* not find it; a call that found the element schedules its clean-up.
RECURSIVE BulkRemoveFromChunkRun(_, _, _, _, _, _)
BulkRemoveFromChunkRun(m, reg, tagIdsToRemove, pos, attached, scheduled) ==
  IF Len(tagIdsToRemove) = 0 THEN [doc |-> m, scheduled |-> scheduled]
  ELSE IF ~attached
  THEN BulkRemoveFromChunkRun(m, reg, Tail(tagIdsToRemove), pos, FALSE, scheduled)
  ELSE LET newM == RemoveTagFromEditor(m, reg, Head(tagIdsToRemove), TRUE,
                                       pos, NodeEnd(m, pos))
       IN BulkRemoveFromChunkRun(newM, reg, Tail(tagIdsToRemove), pos,
                                 newM[pos] = m[pos],
                                 Append(scheduled, <<Head(tagIdsToRemove)>>))

\* One removeTagFromTextChunk per id against the element of the chunk at pos.
RemoveEachFromChunk(op, tagIdsToRemove, pos) ==
  /\ pos \in Chunks(marks)
  /\ LET run == BulkRemoveFromChunkRun(marks, tags, tagIdsToRemove, pos, TRUE, <<>>)
     IN /\ Len(timers) + Len(run.scheduled) <= MaxTimers
        /\ marks' = run.doc
        /\ timers' = timers \o run.scheduled
        /\ last' = Did(op, tagIdsToRemove, 0, 0, TRUE, run.doc)
  /\ UNCHANGED <<tags, selectedText, showTagDialog, now, content, effectPending, call, text, contextMenu, bulkRemovalDialog, tip, editor, editors, staleTimers, storage, load>>

BulkRemoveFromChunk(tagIdsToRemove, pos) ==
  RemoveEachFromChunk("bulkRemoveFromChunk", tagIdsToRemove, pos)

\* relevantTags of the context menu: the registry entries of the chunk's ids.
RelevantTags(reg, tagIds) == SelectSeq(reg, LAMBDA tag : Includes(tagIds, tag.id))

\* "Remove all tags" of the context menu, shown for a chunk with several
\* relevant tags: relevantTags.forEach(tag => onRemoveTag(tag.id, taggedElement)).
RemoveAllTags(pos) ==
  /\ pos \in Chunks(marks)
  /\ Len(RelevantTags(tags, TagIdsOf(marks[pos]))) > 1
  /\ RemoveEachFromChunk("removeAllTags",
                         [i \in 1..Len(RelevantTags(tags, TagIdsOf(marks[pos]))) |->
                            RelevantTags(tags, TagIdsOf(marks[pos]))[i].id],
                         pos)

\* The confirm button of the bulk removal dialog: disabled={selectedForRemoval.size === 0}
ConfirmEnabled(selectedForRemoval) == Cardinality(selectedForRemoval) # 0

\* Array.from(selectedForRemoval): the selected ids in the order they were selected.
ArrayFrom(S) == {r \in [1..Cardinality(S) -> S] : Range(r) = S}

\* handleConfirmRemoval of the dialog opened on the chunk at pos, with some of
\* the chunk's ids selected.
HandleConfirmRemoval(selectedForRemoval, removalMode, pos) ==
  /\ pos \in Chunks(marks)
  /\ selectedForRemoval \subseteq Range(TagIdsOf(marks[pos]))
  /\ ConfirmEnabled(selectedForRemoval)
  /\ \E tagsToRemove \in ArrayFrom(selectedForRemoval) :
       IF removalMode = "chunk"
       THEN BulkRemoveFromChunk(tagsToRemove, pos)
       ELSE BulkRemoveFromDocument(tagsToRemove)

Next ==
  \/ Tick
  \/ \E from \in InlinePos, to \in InlinePos : MouseUp(from, to)
  \/ \E name \in Names, color \in Colors : CreateTag(name, color)
  \/ \E tagId \in UsedIds : AssignExistingTag(tagId)
  \/ \E tagId \in UsedIds, pos \in TextPos : RemoveTagFromTextChunk(tagId, pos)
  \/ FireCleanup
  \/ \E r \in RemovalLists, pos \in TextPos : RemoveTagsFromChunk(r, pos)
  \/ \E r \in RemovalLists, pos \in TextPos : HookRemoveTagsFromChunk(r, pos)
  \/ \E r \in RemovalLists : RemoveTagsFromDocument(r)
  \/ \E tagId \in UsedIds : DeleteTagEntirely(tagId)
  \/ \E r \in RemovalLists : BulkRemoveFromDocument(r)
  \/ \E r \in RemovalLists, pos \in TextPos : BulkRemoveFromChunk(r, pos)
  \/ \E pos \in TextPos : RemoveAllTags(pos)
  \/ \E S \in SUBSET UsedIds, removalMode \in {"chunk", "document"}, pos \in TextPos :
       HandleConfirmRemoval(S, removalMode, pos)

Spec == Init /\ [][Next]_vars

\* ------------------------------------------- the tagOperations of uiSlice.ts
\* The stateless tagOperations module keeps the ids of a span in a
\* comma-separated data-tag and works on the bound store's registry.

\* data-tag.split(",")
UITagIdsOf(mk) == Split(mk.dataTag, ",")

\* nestingLevel === 1 ? "my-tag inner-chunk" : "my-tag outer-chunk"
HierarchicalClass(nestingLevel) ==
  IF nestingLevel = 1 THEN "my-tag inner-chunk" ELSE "my-tag outer-chunk"

\* The ids of a list that have a registry entry: map(find).filter(Boolean).
RemainingTags(ids, reg) == SelectSeq(ids, LAMBDA id : FindTag(reg, id) # NoTag)

\* The names behind `Tagged: ${tagDetails}`.
TagDetails(ids, reg) == [i \in 1..Len(ids) |-> FindTag(reg, ids[i]).name]

\* tagOperations.applyTagToSelection: the ids of the node at the selection's
\* start, then setTaggedSpan over the selection.
UIApplyToDoc(m, sel, tag, reg) ==
  LET existingIds == IF m[sel.from] # NoMark THEN UITagIdsOf(m[sel.from]) ELSE <<>>
      allTagIds == Append(existingIds, tag.id)
  IN IF Includes(existingIds, tag.id) THEN m
     ELSE SetTaggedSpan(m, sel.from, sel.to,
            [dataTag |-> Join(allTagIds, ","),
             class |-> HierarchicalClass(Len(allTagIds)),
             style |-> <<"--tag-color", tag.color, Len(allTagIds)>>,
             title |-> <<"Tagged">> \o
                       [i \in 1..Len(allTagIds) |->
                          IF FindTag(reg, allTagIds[i]) # NoTag
                          THEN FindTag(reg, allTagIds[i]).name ELSE "Unknown"]])

\* The mark a document-wide removal of tagOperations leaves on a node carrying
\* mk: gone when no id remains, rewritten when an id that remains has a
\* registry entry, and otherwise left as it was.
UIRewriteMark(mk, tagIdsToRemove, reg) ==
  LET currentTagIds == UITagIdsOf(mk)
      remainingTagIds == Without(currentTagIds, tagIdsToRemove)
      remainingTags == RemainingTags(remainingTagIds, reg)
  IN IF mk = NoMark THEN mk
     ELSE IF Len(remainingTagIds) = 0 THEN NoMark
     ELSE IF Len(remainingTagIds) # Len(currentTagIds) /\ Len(remainingTags) > 0
     THEN [dataTag |-> Join(remainingTagIds, ","),
           class |-> HierarchicalClass(Len(remainingTagIds)),
           style |-> <<"object">> \o GenerateUpdatedTagStyle(remainingTagIds, reg).style,
           title |-> <<"Tagged">> \o TagDetails(remainingTags, reg)]
     ELSE mk

\* The document after tagOperations.removeBulkTags / removeTagFromDocument:
\* doc.descendants over the text nodes, every character of a node sharing its mark.
UIRemoveFromDoc(m, tagIdsToRemove, reg) ==
  [p \in TextPos |-> UIRewriteMark(m[p], tagIdsToRemove, reg)]

\* A fresh id: `tag-${Date.now()}-${random}`.
FreshIds == {id \in UsedIds :
               /\ id \notin RegIds(tags)
               /\ \A p \in TextPos : ~Includes(UITagIdsOf(marks[p]), id)}

UICreateTag(name, color) ==
  /\ selectedText # NoSel
  /\ Len(tags) < MaxTags
  /\ \E id \in FreshIds :
       LET newTag == [id |-> id, name |-> name, color |-> color,
                        isHighlighted |-> FALSE]
       IN /\ tags' = Append(tags, newTag)
          /\ marks' = UIApplyToDoc(marks, selectedText, newTag, Append(tags, newTag))
          /\ last' = Did("createTag", <<id>>, selectedText.from, selectedText.to, TRUE,
                         UIApplyToDoc(marks, selectedText, newTag, Append(tags, newTag)))
  /\ selectedText' = NoSel
  /\ showTagDialog' = FALSE
  /\ UNCHANGED <<now, timers, content, effectPending, call, text, contextMenu, bulkRemovalDialog, tip, editor, editors, staleTimers, storage, load>>

UIApplyExistingTag(tagId) ==
  /\ selectedText # NoSel
  /\ FindTag(tags, tagId) # NoTag
  /\ marks' = UIApplyToDoc(marks, selectedText, FindTag(tags, tagId), tags)
  /\ last' = Did("applyExistingTag", <<tagId>>, selectedText.from, selectedText.to, TRUE,
                 UIApplyToDoc(marks, selectedText, FindTag(tags, tagId), tags))
  /\ selectedText' = NoSel
  /\ showTagDialog' = FALSE
  /\ UNCHANGED <<tags, now, timers, content, effectPending, call, text, contextMenu, bulkRemovalDialog, tip, editor, editors, staleTimers, storage, load>>

\* tagOperations.removeTagFromDocument(tagId): the document only.
UIRemoveTagFromDocument(tagId) ==
  /\ marks' = UIRemoveFromDoc(marks, <<tagId>>, tags)
  /\ last' = Did("removeTagFromDocument", <<tagId>>, 0, 0, TRUE,
                 UIRemoveFromDoc(marks, <<tagId>>, tags))
  /\ UNCHANGED <<tags, selectedText, showTagDialog, now, timers, content, effectPending, call, text, contextMenu, bulkRemovalDialog, tip, editor, editors, staleTimers, storage, load>>

\* tagOperations.removeBulkTags(tagIdsToRemove): the document, then the registry.
UIRemoveBulkTags(tagIdsToRemove) ==
  /\ Len(tagIdsToRemove) # 0
  /\ marks' = UIRemoveFromDoc(marks, tagIdsToRemove, tags)
  /\ tags' = RemoveTagsFrom(tags, tagIdsToRemove)
  /\ last' = Did("removeBulkTags", tagIdsToRemove, 0, 0, TRUE,
                 UIRemoveFromDoc(marks, tagIdsToRemove, tags))
  /\ UNCHANGED <<selectedText, showTagDialog, now, timers, content, effectPending, call, text, contextMenu, bulkRemovalDialog, tip, editor, editors, staleTimers, storage, load>>

\* The bound store's removeTag(tagId): the registry only.
RemoveTag(tagId) ==
  /\ tags' = RemoveTagFrom(tags, tagId)
  /\ last' = Did("removeTag", <<tagId>>, 0, 0, TRUE, marks)
  /\ UNCHANGED <<marks, selectedText, showTagDialog, now, timers, content, effectPending, call, text, contextMenu, bulkRemovalDialog, tip, editor, editors, staleTimers, load>>
  /\ storage' = SaveTags(tags')

NextUI ==
  \/ \E from \in InlinePos, to \in InlinePos : MouseUp(from, to)
  \/ \E name \in Names, color \in Colors : UICreateTag(name, color)
  \/ \E tagId \in UsedIds : UIApplyExistingTag(tagId)
  \/ \E tagId \in UsedIds : UIRemoveTagFromDocument(tagId)
  \/ \E r \in RemovalLists : UIRemoveBulkTags(r)
  \/ \E tagId \in UsedIds \cup LoadedIds : RemoveTag(tagId)

SpecUI == Init /\ [][NextUI]_vars

\* ------------------------------------- the TiptapEditor component (variant)
\* TiptapEditor.tsx keeps the registry, the selection and the dialog in React
\* state and runs a content effect whenever editor, content or tags changed.

\* What the component can be given as content: plain text, a span of the first
\* character matched by the effect's tag extraction, and one it does not match.
LoadedSpan(class) ==
  [dataTag |-> <<"tag-4", " ", "tag-4">>, class |-> class, style |-> <<>>, title |-> <<>>]

\* A span of loaded content with three tags, as the removals write it.
ThreeTagSpan ==
  [dataTag |-> <<"tag-1", " ", "tag-2", " ", "tag-3">>, class |-> "my-tag inner-chunk",
   style |-> <<>>, title |-> <<>>]

Contents ==
  {[p \in TextPos |-> NoMark]} \cup
  {[p \in TextPos |-> IF p = 1 THEN LoadedSpan(class) ELSE NoMark] :
     class \in {"my-tag", "my-tag outer-chunk"}} \cup
  {[p \in TextPos |-> IF p = 1 THEN ThreeTagSpan ELSE NoMark]}

\* TaggedSpan.parseHTML: a span element becomes a mark with the element's
\* data-tag, class, style and title attributes as they are.
ParseHTML(c) ==
  [p \in TextPos |->
     IF c[p] = NoMark THEN NoMark
     ELSE [dataTag |-> c[p].dataTag, class |-> c[p].class,
           style |-> c[p].style, title |-> c[p].title]]

\* tagColors of the content effect.
TagColors == <<"#3B82F6", "#EF4444", "#10B981", "#F59E0B", "#8B5CF6", "#EC4899">>

\* tagIds.forEach: an id not extracted yet gets an entry named `Tag ${tagId}`.
RECURSIVE ExtractIds(_, _)
ExtractIds(extractedTags, tagIds) ==
  IF Len(tagIds) = 0 THEN extractedTags
  ELSE IF FindTag(extractedTags, Head(tagIds)) # NoTag
  THEN ExtractIds(extractedTags, Tail(tagIds))
  ELSE ExtractIds(
         Append(extractedTags,
                [id |-> Head(tagIds), name |-> PlaceholderName[Head(tagIds)],
                 color |-> TagColors[(Len(extractedTags) % Len(TagColors)) + 1],
                 isHighlighted |-> FALSE]),
         Tail(tagIds))

\* existingTagMatches.forEach over the span elements with class="my-tag" and a
\* data-tag, in document order; elements is the set of their first positions.
RECURSIVE ExtractTags(_, _, _)
ExtractTags(c, elements, extractedTags) ==
  IF elements = {} THEN extractedTags
  ELSE LET p == CHOOSE x \in elements : \A y \in elements : x <= y
       IN ExtractTags(c, elements \ {p},
                      ExtractIds(extractedTags, Split(c[p].dataTag, " ")))

ExtractedTags(c) ==
  ExtractTags(c, {p \in NodeStarts(c) : c[p] # NoMark /\ c[p].class = "my-tag"}, <<>>)

\* The component's applyTagToSelection, with the registry of the last render.
EditorApplyToDoc(m, sel, tag, reg) ==
  LET existingTagIds == ExistingTagIds(m, sel.from, sel.to)
      allTagIds == Append(existingTagIds, tag.id)
  IN IF Includes(existingTagIds, tag.id) THEN m
     ELSE SetTaggedSpan(m, sel.from, sel.to,
            [dataTag |-> Join(allTagIds, " "),
             class |-> "my-tag",
             style |-> IF Len(allTagIds) > 1
                       THEN <<"gradient25">> \o
                            [i \in 1..Len(allTagIds) |->
                               IF FindTag(reg, allTagIds[i]) # NoTag
                               THEN FindTag(reg, allTagIds[i]).color ELSE tag.color]
                       ELSE <<"single", tag.color>>,
             title |-> IF Len(allTagIds) > 1
                       THEN [i \in 1..Len(allTagIds) |->
                               IF FindTag(reg, allTagIds[i]) # NoTag
                               THEN FindTag(reg, allTagIds[i]).name
                               ELSE PlaceholderName[allTagIds[i]]]
                       ELSE <<tag.name>>])

\* The mark the component's removeTagFromEditor creates for the remaining ids.
EditorRemainingMark(newTagIds, reg) ==
  [dataTag |-> Join(newTagIds, " "),
   class |-> "my-tag",
   style |-> IF Len(newTagIds) > 1
             THEN <<"gradient25">> \o
                  [i \in 1..Len(newTagIds) |->
                     IF FindTag(reg, newTagIds[i]) # NoTag
                     THEN FindTag(reg, newTagIds[i]).color ELSE "#3B82F6"]
             ELSE <<"single", IF FindTag(reg, newTagIds[1]) # NoTag
                              THEN FindTag(reg, newTagIds[1]).color ELSE "#3B82F6">>,
   title |-> [i \in 1..Len(newTagIds) |->
                IF FindTag(reg, newTagIds[i]) # NoTag
                THEN FindTag(reg, newTagIds[i]).name
                ELSE PlaceholderName[newTagIds[i]]]]

\* The component's removeTagFromEditor(tagId) without a range: every node that
\* carries the id is rewritten, every character of a node sharing its mark.
EditorRemoveTagFromEditor(m, reg, tagId) ==
  [p \in TextPos |->
     IF m[p] # NoMark /\ Includes(TagIdsOf(m[p]), tagId)
     THEN IF Len(Without(TagIdsOf(m[p]), <<tagId>>)) > 0
          THEN EditorRemainingMark(Without(TagIdsOf(m[p]), <<tagId>>), reg)
          ELSE NoMark
     ELSE m[p]]

InitEditor ==
  /\ content \in Contents
  /\ marks = ParseHTML(content)
  /\ tags = <<>>
  /\ selectedText = NoSel
  /\ showTagDialog = FALSE
  /\ now = 1
  /\ timers = <<>>
  /\ last = NoOp
  /\ effectPending = TRUE
  /\ call = NoCall
  /\ text \in Texts
  /\ contextMenu = NoContextMenu
  /\ bulkRemovalDialog = NoBulkRemovalDialog
  /\ tip = NoTip
  /\ editor = 1
  /\ editors = <<"live">>
  /\ staleTimers = 0
  /\ storage = NoItem
  /\ load = NoLoad

\* The content effect: the document is set from the content again, and the
\* tags extracted from the content, if any, replace the registry.
ContentEffect ==
  /\ effectPending
  /\ marks' = ParseHTML(content)
  /\ IF Len(ExtractedTags(content)) > 0
     THEN tags' = ExtractedTags(content) /\ effectPending' = TRUE
     ELSE tags' = tags /\ effectPending' = FALSE
  /\ last' = Did("contentEffect", <<>>, 0, 0, TRUE, ParseHTML(content))
  /\ UNCHANGED <<selectedText, showTagDialog, now, timers, content, call, text, contextMenu, bulkRemovalDialog, tip, editor, editors, staleTimers, storage, load>>

\* Handlers run once the pending effect has run.
EditorTick == ~effectPending /\ Tick

EditorMouseUp(from, to) == ~effectPending /\ MouseUp(from, to)

\* handleCreateTag: setTags, then applyTagToSelection with this render's tags.
HandleCreateTag(name, color) ==
  /\ ~effectPending
  /\ selectedText # NoSel
  /\ Len(tags) < MaxTags
  /\ LET newTag == [id |-> ClockIds[now], name |-> name, color |-> color,
                    isHighlighted |-> FALSE]
     IN /\ tags' = Append(tags, newTag)
        /\ marks' = EditorApplyToDoc(marks, selectedText, newTag, tags)
        /\ last' = Did("createTag", <<newTag.id>>, selectedText.from, selectedText.to,
                       TRUE, EditorApplyToDoc(marks, selectedText, newTag, tags))
  /\ selectedText' = NoSel
  /\ showTagDialog' = FALSE
  /\ effectPending' = TRUE
  /\ UNCHANGED <<now, timers, content, call, text, contextMenu, bulkRemovalDialog, tip, editor, editors, staleTimers, storage, load>>

\* handleAssignExistingTag
HandleAssignExistingTag(tagId) ==
  /\ ~effectPending
  /\ selectedText # NoSel
  /\ FindTag(tags, tagId) # NoTag
  /\ marks' = EditorApplyToDoc(marks, selectedText, FindTag(tags, tagId), tags)
  /\ last' = Did("assignExistingTag", <<tagId>>, selectedText.from, selectedText.to,
                 TRUE, EditorApplyToDoc(marks, selectedText, FindTag(tags, tagId), tags))
  /\ selectedText' = NoSel
  /\ showTagDialog' = FALSE
  /\ UNCHANGED <<tags, now, timers, content, effectPending, call, text, contextMenu, bulkRemovalDialog, tip, editor, editors, staleTimers, storage, load>>

\* handleTagHighlight: setTags with the entry's flag flipped.
HandleTagHighlight(tagId) ==
  /\ ~effectPending
  /\ tags' = [i \in 1..Len(tags) |->
                IF tags[i].id = tagId
                THEN [tags[i] EXCEPT !.isHighlighted = ~tags[i].isHighlighted]
                ELSE tags[i]]
  /\ effectPending' = TRUE
  /\ last' = Did("toggleTagHighlight", <<tagId>>, 0, 0, TRUE, marks)
  /\ UNCHANGED <<marks, selectedText, showTagDialog, now, timers, content, call, text, contextMenu, bulkRemovalDialog, tip, editor, editors, staleTimers, storage, load>>

\* confirmDeleteTag: the entry leaves the registry and the id leaves the document.
ConfirmDeleteTag(tagId) ==
  /\ ~effectPending
  /\ tags' = RemoveTagFrom(tags, tagId)
  /\ marks' = EditorRemoveTagFromEditor(marks, tags, tagId)
  /\ effectPending' = TRUE
  /\ last' = Did("confirmDeleteTag", <<tagId>>, 0, 0, TRUE,
                 EditorRemoveTagFromEditor(marks, tags, tagId))
  /\ UNCHANGED <<selectedText, showTagDialog, now, timers, content, call, text, contextMenu, bulkRemovalDialog, tip, editor, editors, staleTimers, storage, load>>

\* What can be typed into the name field of the creation dialog, as tokens: a
\* whitespace character or a word.
TagNameInputs == {<<>>, <<" ">>, <<" ", " ">>, <<"NameA">>, <<" ", "NameA", " ">>}

\* String.prototype.trim
RECURSIVE TrimStart(_)
TrimStart(s) == IF Len(s) > 0 /\ Head(s) = " " THEN TrimStart(Tail(s)) ELSE s

RECURSIVE TrimEnd(_)
TrimEnd(s) ==
  IF Len(s) > 0 /\ s[Len(s)] = " " THEN TrimEnd(SubSeq(s, 1, Len(s) - 1)) ELSE s

\* A trim that strips nothing.
TrimNothing(s) == s

Trim(s) == TrimEnd(TrimStart(s))

\* The string of a name of one word.
NameText(tokens) == tokens[1]

\* handleCreate of the creation dialog: onCreateTag is called with the trimmed
\* name only if the trimmed name is not empty.
DialogHandleCreate(tagName, color) ==
  /\ ~effectPending
  /\ showTagDialog
  /\ IF Len(Trim(tagName)) # 0
     THEN HandleCreateTag(NameText(Trim(tagName)), color)
     ELSE /\ last' = Did("handleCreate", <<>>, 0, 0, FALSE, marks)
          /\ UNCHANGED <<marks, tags, selectedText, showTagDialog, now, timers,
                         content, effectPending, call, text, contextMenu, bulkRemovalDialog, tip, editor, editors, staleTimers, storage, load>>

\* handleDOMEvents.contextmenu on the chunk that starts at pos: whatever the
\* number of its tags, the context menu is opened on the chunk.
EditorContextMenu(pos) ==
  /\ ~effectPending
  /\ pos \in Chunks(marks)
  /\ contextMenu' = [isOpen |-> TRUE, taggedElement |-> pos]
  /\ UNCHANGED <<marks, tags, selectedText, showTagDialog, now, timers, last, content,
                 effectPending, call, text, bulkRemovalDialog, tip, editor, editors, staleTimers, storage, load>>

HandleCloseContextMenu ==
  /\ ~effectPending
  /\ contextMenu.isOpen
  /\ contextMenu' = [contextMenu EXCEPT !.isOpen = FALSE]
  /\ UNCHANGED <<marks, tags, selectedText, showTagDialog, now, timers, last, content,
                 effectPending, call, text, bulkRemovalDialog, tip, editor, editors, staleTimers, storage, load>>

NextEditor ==
  \/ ContentEffect
  \/ EditorTick
  \/ \E from \in InlinePos, to \in InlinePos : EditorMouseUp(from, to)
  \/ \E tagName \in TagNameInputs, color \in Colors : DialogHandleCreate(tagName, color)
  \/ \E tagId \in UsedIds : HandleAssignExistingTag(tagId)
  \/ \E tagId \in UsedIds : HandleTagHighlight(tagId)
  \/ \E tagId \in UsedIds : ConfirmDeleteTag(tagId)
  \/ \E pos \in TextPos : EditorContextMenu(pos)
  \/ HandleCloseContextMenu

SpecEditor == InitEditor /\ [][NextEditor]_vars

\* ------------------------------------------- the utility functions, called
\* getTagUsageInfo, validateTagRemoval and the other utilities are functions of
\* the rendered document and their arguments; FnSpec calls them on documents
\* whose ids include one that is a substring of another.

FnIds == {"tag-1", "tag-12"}

FnMark(ids) ==
  [dataTag |-> Join(ids, " "), class |-> "my-tag", style |-> <<>>, title |-> <<>>]

FnMarks == {NoMark} \cup {FnMark(ids) : ids \in {<<"tag-1">>, <<"tag-12">>, <<"tag-1", "tag-12">>}}

InitFn ==
  /\ marks \in [TextPos -> FnMarks]
  /\ tags = <<>>
  /\ selectedText = NoSel
  /\ showTagDialog = FALSE
  /\ now = 1
  /\ timers = <<>>
  /\ last = NoOp
  /\ content = [p \in TextPos |-> NoMark]
  /\ effectPending = FALSE
  /\ call = NoCall
  /\ text = PlainText
  /\ contextMenu = NoContextMenu
  /\ bulkRemovalDialog = NoBulkRemovalDialog
  /\ tip = NoTip
  /\ editor = 1
  /\ editors = <<"live">>
  /\ staleTimers = 0
  /\ storage = NoItem
  /\ load = NoLoad

\* getTagUsageInfo(tagId) with an editor
GetTagUsageInfo(m, tagId) ==
  [instanceCount |-> CountTagInstances(m, tagId),
   isMultipleUse |-> CountTagInstances(m, tagId) > 1]

CallGetTagUsageInfo(tagId) ==
  /\ call' = [fn |-> "getTagUsageInfo", tagId |-> tagId,
              result |-> GetTagUsageInfo(marks, tagId)]
  /\ UNCHANGED <<marks, tags, selectedText, showTagDialog, now, timers, last,
                 content, effectPending, text, contextMenu, bulkRemovalDialog, tip, editor, editors, staleTimers, storage, load>>

\* The id lists the utilities are called with.
MaxArgs == 2

ArgIds == {"tag-1", "tag-2"}

ArgLists == UNION {[1..n -> ArgIds] : n \in 0..MaxArgs}

CallValidateTagRemoval(tagIds, tagsToRemove) ==
  /\ call' = [fn |-> "validateTagRemoval", tagIds |-> tagIds, tagsToRemove |-> tagsToRemove,
              result |-> [isValid |-> ValidateTagRemoval(tagIds, tagsToRemove),
                          warnings |-> ValidateTagRemovalWarnings(tagIds, tagsToRemove)]]
  /\ UNCHANGED <<marks, tags, selectedText, showTagDialog, now, timers, last,
                 content, effectPending, text, contextMenu, bulkRemovalDialog, tip, editor, editors, staleTimers, storage, load>>

\* The registries the utilities are called with.
FnTag(id) == [id |-> id, name |-> "NameA", color |-> "#EF4444", isHighlighted |-> FALSE]

FnRegistries == {<<>>, <<FnTag("tag-1")>>, <<FnTag("tag-1"), FnTag("tag-2")>>}

CallGenerateUpdatedTagStyle(remainingTagIds, reg) ==
  /\ call' = [fn |-> "generateUpdatedTagStyle", remainingTagIds |-> remainingTagIds,
              tags |-> reg, result |-> GenerateUpdatedTagStyle(remainingTagIds, reg)]
  /\ UNCHANGED <<marks, tags, selectedText, showTagDialog, now, timers, last,
                 content, effectPending, text, contextMenu, bulkRemovalDialog, tip, editor, editors, staleTimers, storage, load>>

\* Registries to save: FnRegistries, and one whose first entry is highlighted
\* and whose ids are not in creation order.
SavedRegistries ==
  FnRegistries \cup {<<[FnTag("tag-2") EXCEPT !.isHighlighted = TRUE], FnTag("tag-1")>>}

CallSaveThenLoad(reg) ==
  /\ call' = [fn |-> "saveThenLoad", tags |-> reg, result |-> LoadTags(SaveTags(reg))]
  /\ UNCHANGED <<marks, tags, selectedText, showTagDialog, now, timers, last,
                 content, effectPending, text, contextMenu, bulkRemovalDialog, tip, editor, editors, staleTimers, storage, load>>

\* The debug panel: exportTags writes JSON.stringify(tags, null, 2) to a file,
\* importTags hands JSON.parse of the file to setTags.
CallExportThenImport(reg) ==
  /\ call' = [fn |-> "exportThenImport", tags |-> reg,
              result |-> JSONParse(JSONStringify(reg))]
  /\ UNCHANGED <<marks, tags, selectedText, showTagDialog, now, timers, last,
                 content, effectPending, text, contextMenu, bulkRemovalDialog, tip, editor, editors, staleTimers, storage, load>>

\* loadTags before anything was saved.
CallLoadTags ==
  /\ call' = [fn |-> "loadTags", tags |-> <<>>, result |-> LoadTags(NoItem)]
  /\ UNCHANGED <<marks, tags, selectedText, showTagDialog, now, timers, last,
                 content, effectPending, text, contextMenu, bulkRemovalDialog, tip, editor, editors, staleTimers, storage, load>>

\* getTagsInChunk of the store: tagIds.map(id => tags.find(...)).filter(tag => !!tag).
GetTagsInChunk(tagIds, reg) ==
  SelectSeq([i \in 1..Len(tagIds) |-> FindTag(reg, tagIds[i])], LAMBDA tag : tag # NoTag)

\* tagLookup of useTagRemoval: a Map filled in registry order, so the last
\* entry of an id is the one kept.
TagLookup(reg, id) ==
  IF \E i \in 1..Len(reg) : reg[i].id = id
  THEN reg[CHOOSE i \in 1..Len(reg) :
             reg[i].id = id /\ \A j \in (i + 1)..Len(reg) : reg[j].id # id]
  ELSE NoTag

\* getTagsInChunk of useTagRemoval.
HookGetTagsInChunk(tagIds, reg) ==
  SelectSeq([i \in 1..Len(tagIds) |-> TagLookup(reg, tagIds[i])], LAMBDA tag : tag # NoTag)

\* The tag lists shown for a chunk with the ids tagIds: by the store, by the
\* hook, and by the context menu (relevantTags).
CallGetTagsInChunk(tagIds, reg) ==
  /\ call' = [fn |-> "getTagsInChunk", tagIds |-> tagIds, tags |-> reg,
              result |-> GetTagsInChunk(tagIds, reg),
              hook |-> HookGetTagsInChunk(tagIds, reg),
              menu |-> RelevantTags(reg, tagIds)]
  /\ UNCHANGED <<marks, tags, selectedText, showTagDialog, now, timers, last,
                 content, effectPending, text, contextMenu, bulkRemovalDialog, tip, editor, editors, staleTimers, storage, load>>

NextFn ==
  \/ \E tagId \in FnIds : CallGetTagUsageInfo(tagId)
  \/ \E remainingTagIds \in ArgLists, reg \in FnRegistries :
       CallGenerateUpdatedTagStyle(remainingTagIds, reg)
  \/ \E tagIds \in ArgLists, tagsToRemove \in ArgLists :
       CallValidateTagRemoval(tagIds, tagsToRemove)
  \/ \E reg \in SavedRegistries : CallSaveThenLoad(reg)
  \/ \E reg \in SavedRegistries : CallExportThenImport(reg)
  \/ CallLoadTags
  \/ \E tagIds \in ArgLists, reg \in FnRegistries : CallGetTagsInChunk(tagIds, reg)

SpecFn == InitFn /\ [][NextFn]_vars

\* --------------------------------------------- the store on loaded content
\* setContent hands the editor any document, and removeTag and clearAllData
\* take entries out of the registry without touching the document, so the store
\* also works on documents whose ids have no registry entry: SpecLoaded starts
\* the store's apply and delete operations on such documents.

NextLoaded ==
  \/ Tick
  \/ \E from \in InlinePos, to \in InlinePos : MouseUp(from, to)
  \/ \E name \in Names, color \in Colors : CreateTag(name, color)
  \/ \E tagId \in UsedIds : AssignExistingTag(tagId)
  \/ \E tagId \in UsedIds \cup FnIds : DeleteTagEntirely(tagId)

SpecLoaded == InitFn /\ [][NextLoaded]_vars

\* ------------------------------------- the editor's life (initializeEditor)

\* The store starts with editor: null; useEditorInitialization calls
\* initializeEditor with the editor's options, among them the content, and
\* destroyEditor when the component goes.  SpecLife follows the store through
\* editors that come and go while removals and their callbacks run.

MaxEditors == 2

NoDocument == [p \in TextPos |-> NoMark]

LifeRegistry == <<FnTag("tag-1"), FnTag("tag-12")>>

InitLife ==
  /\ marks = NoDocument
  /\ tags = LifeRegistry
  /\ selectedText = NoSel
  /\ showTagDialog = FALSE
  /\ now = 1
  /\ timers = <<>>
  /\ last = NoOp
  /\ content = [p \in TextPos |-> NoMark]
  /\ effectPending = FALSE
  /\ call = NoCall
  /\ text = PlainText
  /\ contextMenu = NoContextMenu
  /\ bulkRemovalDialog = NoBulkRemovalDialog
  /\ tip = NoTip
  /\ editor = 0
  /\ editors = <<>>
  /\ staleTimers = 0
  /\ storage = SaveTags(LifeRegistry)
  /\ load = NoLoad

\* An initializeEditor that constructs an Editor whether or not one exists.
InitializeEditorAlways(doc, throws) ==
  /\ Len(editors) < MaxEditors
  /\ editors' = Append(editors, "live")
  /\ editor' = Len(editors) + 1
  /\ marks' = doc
  /\ call' = [fn |-> "initializeEditor", result |-> Len(editors) + 1]
  /\ UNCHANGED <<tags, selectedText, showTagDialog, now, timers, last, content,
                 effectPending, text, contextMenu, bulkRemovalDialog, tip, staleTimers, storage, load>>

\* initializeEditor(options): the existing editor, or a new Editor whose
\* document is the options' content, or null when the constructor throws.
InitializeEditor(doc, throws) ==
  /\ (editor = 0 /\ ~throws) => Len(editors) < MaxEditors
  /\ IF editor # 0
     THEN /\ call' = [fn |-> "initializeEditor", result |-> editor]
          /\ UNCHANGED <<marks, editor, editors, storage, load>>
     ELSE IF throws
          THEN /\ call' = [fn |-> "initializeEditor", result |-> 0]
               /\ UNCHANGED <<marks, editor, editors, storage, load>>
          ELSE /\ editors' = Append(editors, "live")
               /\ editor' = Len(editors) + 1
               /\ marks' = doc
               /\ call' = [fn |-> "initializeEditor", result |-> Len(editors) + 1]
  /\ UNCHANGED <<tags, selectedText, showTagDialog, now, timers, last, content,
                 effectPending, text, contextMenu, bulkRemovalDialog, tip, staleTimers, storage, load>>

\* destroyEditor(): editor.destroy() and editor: null.  Every callback still
\* pending was scheduled by a removal on this or an earlier editor.
DestroyEditor ==
  /\ call' = [fn |-> "destroyEditor", result |-> 0]
  /\ IF editor # 0
     THEN /\ editors' = [editors EXCEPT ![editor] = "destroyed"]
          /\ editor' = 0
          /\ marks' = NoDocument
          /\ staleTimers' = Len(timers)
     ELSE UNCHANGED <<marks, editor, editors, staleTimers, storage, load>>
  /\ UNCHANGED <<tags, selectedText, showTagDialog, now, timers, last, content,
                 effectPending, text, contextMenu, bulkRemovalDialog, tip, storage, load>>

\* mockApiResponse.content.value, as tokens: a heading.
MockValue == <<"####", " ", "Starbucks">>

\* The content of the catch branch.
ErrorContent == <<"<p>", "Error", " ", "loading", " ", "content", "</p>">>

\* parser.convertToHtml(markdown): a heading line, a paragraph, or nothing.
ConvertToHtml(markdown) ==
  IF Trim(markdown) = <<>> THEN <<>>
  ELSE IF Head(markdown) = "####"
       THEN <<"<h4>">> \o Trim(Tail(markdown)) \o <<"</h4>">>
       ELSE <<"<p>">> \o Trim(markdown) \o <<"</p>">>

\* parser.cleanHtmlForEditor(html): no comments and no blank lines in the
\* converted heading, so what is left is the trim.
CleanHtmlForEditor(html) == Trim(html)

AfterSuccess(st) ==
  [st EXCEPT !.content = CleanHtmlForEditor(ConvertToHtml(MockValue)),
             !.isContentLoading = FALSE,
             !.conversions = @ + 1]

\* A catch branch that leaves isContentLoading set.
AfterFailureStillLoading(st) ==
  [st EXCEPT !.content = ErrorContent,
             !.contentError = "Unknown error",
             !.conversions = @ + 1]

AfterFailure(st) ==
  [st EXCEPT !.content = ErrorContent,
             !.contentError = "Unknown error",
             !.isContentLoading = FALSE,
             !.conversions = @ + 1]

\* The body of loadContent after its guard; it has no await, so the call runs
\* to its end before anything else does.
RunLoadContent(throws) ==
  LET started == [load EXCEPT !.isContentLoading = TRUE, !.contentError = "null"]
  IN /\ load' = IF throws THEN AfterFailure(started) ELSE AfterSuccess(started)
     /\ call' = [fn |-> "loadContent", result |-> IF throws THEN "failed" ELSE "loaded"]

\* loadContent of tagStore.ts: skipped when content.trim() is not empty.
LoadContent(throws) ==
  /\ IF Trim(load.content) # <<>>
     THEN /\ call' = [fn |-> "loadContent", result |-> "skipped"]
          /\ UNCHANGED load
     ELSE RunLoadContent(throws)
  /\ UNCHANGED <<marks, tags, selectedText, showTagDialog, now, timers, last, content,
                 effectPending, text, contextMenu, bulkRemovalDialog, tip, editor, editors,
                 staleTimers, storage>>

\* loadContent of editorSlice.ts: skipped also when isContentLoading is set.
SliceLoadContent(throws) ==
  /\ IF Trim(load.content) # <<>> \/ load.isContentLoading
     THEN /\ call' = [fn |-> "loadContent", result |-> "skipped"]
          /\ UNCHANGED load
     ELSE RunLoadContent(throws)
  /\ UNCHANGED <<marks, tags, selectedText, showTagDialog, now, timers, last, content,
                 effectPending, text, contextMenu, bulkRemovalDialog, tip, editor, editors,
                 staleTimers, storage>>

NextLife ==
  \/ \E doc \in [TextPos -> FnMarks], throws \in BOOLEAN : InitializeEditor(doc, throws)
  \/ DestroyEditor
  \/ \E tagId \in FnIds, pos \in TextPos : RemoveTagFromTextChunk(tagId, pos)
  \/ FireCleanup
  \/ \E throws \in BOOLEAN : LoadContent(throws)
  \/ \E throws \in BOOLEAN : SliceLoadContent(throws)

SpecLife == InitLife /\ [][NextLife]_vars

\* ------------------------------------------ the registry and its saved copy

\* The registry actions of the store and the persistence actions of the debug
\* panel.  The store starts with tags: TagPersistenceService.loadTags().

StoreTags == {FnTag("tag-1"), FnTag("tag-2")}

StoreRegistries == SavedRegistries

\* The updates of updateTag: a partial Tag.
TagUpdates == {[name |-> "NameB"], [isHighlighted |-> TRUE]}

\* { ...tag, ...updates }
Merge(tag, updates) ==
  [f \in DOMAIN tag |-> IF f \in DOMAIN updates THEN updates[f] ELSE tag[f]]

\* TagPersistenceService.clearAll: the item karomia_tags is removed.
ClearAll(saved) == NoItem

SetTags(reg) ==
  /\ tags' = reg
  /\ storage' = SaveTags(reg)
  /\ last' = Did("setTags", <<>>, 0, 0, TRUE, marks)
  /\ UNCHANGED <<marks, selectedText, showTagDialog, now, timers, content, effectPending,
                 call, text, contextMenu, bulkRemovalDialog, tip, editor, editors, staleTimers, load>>

AddTag(tag) ==
  /\ Len(tags) < MaxTags
  /\ tags' = Append(tags, tag)
  /\ storage' = SaveTags(Append(tags, tag))
  /\ last' = Did("addTag", <<tag.id>>, 0, 0, TRUE, marks)
  /\ UNCHANGED <<marks, selectedText, showTagDialog, now, timers, content, effectPending,
                 call, text, contextMenu, bulkRemovalDialog, tip, editor, editors, staleTimers, load>>

UpdateTagIn(reg, tagId, updates) ==
  [i \in 1..Len(reg) |-> IF reg[i].id = tagId THEN Merge(reg[i], updates) ELSE reg[i]]

UpdateTag(tagId, updates) ==
  /\ tags' = UpdateTagIn(tags, tagId, updates)
  /\ storage' = SaveTags(UpdateTagIn(tags, tagId, updates))
  /\ last' = Did("updateTag", <<tagId>>, 0, 0, TRUE, marks)
  /\ UNCHANGED <<marks, selectedText, showTagDialog, now, timers, content, effectPending,
                 call, text, contextMenu, bulkRemovalDialog, tip, editor, editors, staleTimers, load>>

ToggleTagHighlightIn(reg, tagId) ==
  [i \in 1..Len(reg) |->
     IF reg[i].id = tagId
     THEN [reg[i] EXCEPT !.isHighlighted = ~reg[i].isHighlighted]
     ELSE reg[i]]

\* toggleTagHighlight sets the registry and calls no save.
ToggleTagHighlight(tagId) ==
  /\ tags' = ToggleTagHighlightIn(tags, tagId)
  /\ last' = Did("toggleTagHighlight", <<tagId>>, 0, 0, TRUE, marks)
  /\ UNCHANGED <<marks, selectedText, showTagDialog, now, timers, content, effectPending,
                 call, text, contextMenu, bulkRemovalDialog, tip, editor, editors, staleTimers, storage, load>>

ClearAllData ==
  /\ storage' = ClearAll(storage)
  /\ tags' = <<>>
  /\ last' = Did("clearAllData", <<>>, 0, 0, TRUE, marks)
  /\ UNCHANGED <<marks, selectedText, showTagDialog, now, timers, content, effectPending,
                 call, text, contextMenu, bulkRemovalDialog, tip, editor, editors, staleTimers, load>>

LoadPersistedTags ==
  /\ tags' = LoadTags(storage)
  /\ last' = Did("loadPersistedTags", <<>>, 0, 0, TRUE, marks)
  /\ UNCHANGED <<marks, selectedText, showTagDialog, now, timers, content, effectPending,
                 call, text, contextMenu, bulkRemovalDialog, tip, editor, editors, staleTimers, storage, load>>

\* saveTags of the store: the registry as it is goes to the storage.
StoreSaveTags ==
  /\ storage' = SaveTags(tags)
  /\ last' = Did("saveTags", <<>>, 0, 0, TRUE, marks)
  /\ UNCHANGED <<marks, selectedText, showTagDialog, now, timers, content, effectPending,
                 call, text, contextMenu, bulkRemovalDialog, tip, editor, editors, staleTimers, tags, load>>

NextStore ==
  \/ \E reg \in StoreRegistries : SetTags(reg)
  \/ \E tag \in StoreTags : AddTag(tag)
  \/ \E tagId \in FnIds \cup {"tag-2"} : RemoveTag(tagId)
  \/ \E tagId \in FnIds \cup {"tag-2"}, updates \in TagUpdates : UpdateTag(tagId, updates)
  \/ \E tagId \in FnIds \cup {"tag-2"} : ToggleTagHighlight(tagId)
  \/ ClearAllData
  \/ LoadPersistedTags
  \/ StoreSaveTags

SpecStore == Init /\ [][NextStore]_vars

\* ------------------------------------------------ the tooltips (useTagTooltips)

\* The tagged elements under the pointer, named by their data-tag.
TipElements == {"tag-1", "tag-2"}

\* The delays of the show and the hide timer, in milliseconds.
ShowDelay == 100
HideDelay == 150

\* How far time moves in one step.
Durations == {HideDelay - ShowDelay, ShowDelay, HideDelay}

\* The longest stay of the pointer that is told apart.
HoverCap == ShowDelay + HideDelay

TipSlots == 1..MaxTooltips

\* The tooltip elements of the page, of the slots that hold one.
InBody(t) == {k \in TipSlots : t.body[k] # "none"}

\* showTimeout and hideTimeout hold the time left of a pending timer, -1 for
\* null or a timer that ran; hover is the time the pointer has stayed on its
\* element since it entered, -1 when no such stay is under way; away is the
\* time since the pointer left, -1 while it is on an element; scrolled tells
\* that the page scrolled or resized and the pointer entered nothing since.
InitTip ==
  /\ marks = [p \in TextPos |-> NoMark]
  /\ tags = <<FnTag("tag-1"), FnTag("tag-2")>>
  /\ selectedText = NoSel
  /\ showTagDialog = FALSE
  /\ now = 1
  /\ timers = <<>>
  /\ last = NoOp
  /\ content = [p \in TextPos |-> NoMark]
  /\ effectPending = FALSE
  /\ call = NoCall
  /\ text = PlainText
  /\ contextMenu = NoContextMenu
  /\ bulkRemovalDialog = NoBulkRemovalDialog
  /\ tip = [mounted |-> TRUE, pointer |-> "none", hover |-> -1, away |-> -1,
            scrolled |-> FALSE,
            activeTooltip |-> 0, showTimeout |-> -1, showElement |-> "none",
            hideTimeout |-> -1, body |-> [k \in TipSlots |-> "none"]]
  /\ editor = 1
  /\ editors = <<"live">>
  /\ staleTimers = 0
  /\ storage = SaveTags(<<FnTag("tag-1"), FnTag("tag-2")>>)
  /\ load = NoLoad

TipUnchanged ==
  UNCHANGED <<marks, tags, selectedText, showTagDialog, now, timers, last, content,
              effectPending, call, text, contextMenu, bulkRemovalDialog, editor, editors, staleTimers, storage, load>>

\* A hide that removes the tooltip at once.
HideTooltipAtOnce(t) ==
  [t EXCEPT !.showTimeout = -1, !.activeTooltip = 0,
            !.body = [k \in TipSlots |-> IF k = t.activeTooltip THEN "none" ELSE t.body[k]]]

\* hideTooltip: the show timer is cancelled; a tooltip that is showing gets a
\* hide timer.
HideTooltip(t) ==
  [t EXCEPT !.showTimeout = -1,
            !.hideTimeout = IF t.activeTooltip # 0 THEN HideDelay ELSE t.hideTimeout]

\* showTooltip(element): the hide timer is cancelled; a tooltip showing for the
\* same data-tag stays; otherwise hideTooltip() and a new show timer.
ShowTooltip(t, element) ==
  LET cleared == [t EXCEPT !.hideTimeout = -1]
  IN IF cleared.activeTooltip # 0 /\ cleared.body[cleared.activeTooltip] = element
     THEN cleared
     ELSE [HideTooltip(cleared) EXCEPT !.showTimeout = ShowDelay, !.showElement = element]

\* handleMouseEnter on a tagged element.
TipMouseEnter(element) ==
  /\ tip.mounted
  /\ tip.pointer # element
  /\ Cardinality(InBody(tip)) < MaxTooltips
  /\ LET entered == [tip EXCEPT !.pointer = element, !.hover = 0, !.away = -1,
                                !.scrolled = FALSE]
     IN tip' = IF Len(RelevantTags(tags, <<element>>)) > 0
               THEN ShowTooltip(entered, element)
               ELSE entered
  /\ TipUnchanged

\* handleMouseLeave on the tagged element the pointer is on.
TipMouseLeave ==
  /\ tip.mounted
  /\ tip.pointer # "none"
  /\ tip' = HideTooltip([tip EXCEPT !.pointer = "none", !.hover = -1, !.away = 0])
  /\ TipUnchanged

\* handleScroll, for scroll and resize: both timers are cancelled and the
\* tooltip is removed at once.
TipHandleScroll ==
  /\ tip.mounted
  /\ tip' = [HideTooltipAtOnce(tip) EXCEPT !.hideTimeout = -1, !.hover = -1,
                                         !.scrolled = TRUE]
  /\ TipUnchanged

\* The show timer runs: a new tooltip is appended to the page and becomes
\* activeTooltip.
TipShowTimer ==
  /\ tip.showTimeout = 0
  /\ LET k == CHOOSE x \in TipSlots :
                /\ tip.body[x] = "none"
                /\ \A y \in TipSlots : tip.body[y] = "none" => x <= y
     IN tip' = [tip EXCEPT !.showTimeout = -1, !.activeTooltip = k,
                           !.body = [tip.body EXCEPT ![k] = tip.showElement]]
  /\ TipUnchanged

\* The hide timer runs: the tooltip that is activeTooltip now is removed.
TipHideTimer ==
  /\ tip.hideTimeout = 0
  /\ tip' = [HideTooltipAtOnce(tip) EXCEPT !.showTimeout = tip.showTimeout,
                                         !.hideTimeout = -1]
  /\ TipUnchanged

\* Time passes by d: no timer is due, and none becomes overdue.
TipElapse(d) ==
  /\ tip.showTimeout # 0 /\ tip.hideTimeout # 0
  /\ tip.showTimeout = -1 \/ d <= tip.showTimeout
  /\ tip.hideTimeout = -1 \/ d <= tip.hideTimeout
  /\ tip' = [tip EXCEPT
               !.showTimeout = IF @ = -1 THEN -1 ELSE @ - d,
               !.hideTimeout = IF @ = -1 THEN -1 ELSE @ - d,
               !.hover = IF @ = -1 THEN -1
                         ELSE IF @ + d > HoverCap THEN HoverCap ELSE @ + d,
               !.away = IF @ = -1 THEN -1
                        ELSE IF @ + d > HoverCap THEN HoverCap ELSE @ + d]
  /\ TipUnchanged

\* The effect's cleanup: timers cancelled, activeTooltip removed, listeners
\* removed.
TipCleanup ==
  /\ tip.mounted
  /\ tip' = [HideTooltipAtOnce(tip) EXCEPT !.hideTimeout = -1, !.hover = -1,
                                         !.mounted = FALSE]
  /\ TipUnchanged

\* The effect runs again: a fresh closure, the listeners added.
TipMount ==
  /\ ~tip.mounted
  /\ tip' = [tip EXCEPT !.mounted = TRUE, !.activeTooltip = 0, !.showTimeout = -1,
                        !.hideTimeout = -1]
  /\ TipUnchanged

NextTip ==
  \/ \E element \in TipElements : TipMouseEnter(element)
  \/ TipMouseLeave
  \/ TipHandleScroll
  \/ TipShowTimer
  \/ TipHideTimer
  \/ \E d \in Durations : TipElapse(d)
  \/ TipCleanup
  \/ TipMount

SpecTip == InitTip /\ [][NextTip]_vars

\* ---------------------------------------------------------------- properties

InRegistry(reg, id) == FindTag(reg, id) # NoTag

\* Every character of [from, to) carries the id list E.
UniformIds(m, from, to, E) ==
  \A p \in TextPos : (from <= p /\ p < to) => TagIdsOf(m[p]) = E

\* A step of createTag or assignExistingTag that applied tag id t to the
\* stored selection.
Applies(t) ==
  \/ AssignExistingTag(t) /\ InRegistry(tags, t)
  \/ \E name \in Names, color \in Colors : CreateTag(name, color) /\ ClockIds[now] = t

\* C1: applying a registry tag t to a selection inside text that uniformly
\* carries the id list E, t not in E, leaves the selection tagged with E
\* followed by t, wherever the selection starts.
C1_ApplyAppends ==
  [][\A t \in UsedIds :
       (/\ Applies(t)
        /\ UniformIds(marks, selectedText.from, selectedText.to,
                      TagIdsOf(marks[selectedText.from]))
        /\ ~Includes(TagIdsOf(marks[selectedText.from]), t))
       => UniformIds(marks', selectedText.from, selectedText.to,
                     Append(TagIdsOf(marks[selectedText.from]), t))]_vars

\* C2: removing a tag from one chunk changes no character outside that
\* chunk's range, also when the next span starts where the chunk ends and
\* carries the same tag.
C2_ChunkRemovalFrame ==
  [][\A t \in UsedIds, pos \in TextPos :
       (RemoveTagFromTextChunk(t, pos) /\ Includes(TagIdsOf(marks[pos]), t))
       => \A p \in TextPos :
            (p < pos \/ p >= NodeEnd(marks, pos)) => marks'[p] = marks[p]]_vars

\* C3: removeTagsFromChunk(R, chunk) with a non-empty R inside the chunk's id
\* list `before` succeeds and leaves the chunk with before minus R, presented
\* as generateUpdatedTagStyle says, wherever the chunk sits.
C3_ChunkRemovalConserves ==
  [][\A r \in RemovalLists, pos \in TextPos :
       (/\ RemoveTagsFromChunk(r, pos)
        /\ Len(r) > 0
        /\ \A i \in 1..Len(r) : Includes(TagIdsOf(marks[pos]), r[i]))
       => /\ last'.ok
          /\ \A p \in pos..(NodeEnd(marks, pos) - 1) :
               LET after == Without(TagIdsOf(marks[pos]), r)
               IN /\ TagIdsOf(marks'[p]) = after
                  /\ marks'[p].style = GenerateUpdatedTagStyle(after, tags).style
                  /\ marks'[p].title = GenerateUpdatedTagStyle(after, tags).title]_vars

\* C4: a document-scope removal of R rewrites every span whose ids intersect R
\* to its previous ids minus R and leaves every other span unchanged, also
\* when ids that remain on a span have no registry entry.
C4_DocumentRemovalRewrites ==
  [][\A r \in RemovalLists :
       (UIRemoveBulkTags(r) \/ (Len(r) = 1 /\ UIRemoveTagFromDocument(r[1])))
       => \A p \in TextPos :
            /\ UITagIdsOf(marks'[p]) = Without(UITagIdsOf(marks[p]), r)
            /\ (Without(UITagIdsOf(marks[p]), r) = UITagIdsOf(marks[p])
                  => marks'[p] = marks[p])]_vars

\* C5: after deleteTagEntirely(t) no span carries t and the registry has no
\* entry for t, whether or not t was on a span; every other registry entry and
\* every other id on every span is as before.
C5_DeleteEntirely ==
  [][\A t \in UsedIds :
       DeleteTagEntirely(t)
       => /\ \A p \in TextPos : ~Includes(TagIdsOf(marks'[p]), t)
          /\ ~InRegistry(tags', t)
          /\ tags' = SelectSeq(tags, LAMBDA e : e.id # t)
          /\ \A p \in TextPos :
               TagIdsOf(marks'[p]) = SelectSeq(TagIdsOf(marks[p]), LAMBDA id : id # t)]_vars

\* A delete that took the tag from a span which keeps another tag.
C5_Witness ==
  /\ last.op = "deleteTagEntirely"
  /\ last.changed
  /\ ~InRegistry(tags, last.ids[1])
  /\ \E p \in TextPos : marks[p] # NoMark /\ ~Includes(TagIdsOf(marks[p]), last.ids[1])

\* A clean-up callback that will look at tag id t is pending.
CleanupPending(tm, t) == \E k \in 1..Len(tm) : Includes(tm[k], t)

\* No span of the document carries tag id t.
Unused(m, t) == \A p \in TextPos : ~Includes(TagIdsOf(m[p]), t)

\* A chunk-scope removal of the ids r from the chunk at pos.
ChunkRemoval(r, pos) ==
  \/ RemoveTagsFromChunk(r, pos)
  \/ HookRemoveTagsFromChunk(r, pos)
  \/ Len(r) = 1 /\ RemoveTagFromTextChunk(r[1], pos)

\* C6: when a chunk-scope removal takes away the last span that referenced a
\* tag, the tag leaves the registry without further user action.  The registry
\* changes without user action only when a pending clean-up callback runs, so
\* right after such a removal a callback for the tag has to be pending.
C6_LastInstanceCleanup ==
  [][\A r \in RemovalLists, pos \in TextPos, t \in UsedIds :
       (/\ ChunkRemoval(r, pos)
        /\ Includes(r, t)
        /\ Includes(TagIdsOf(marks[pos]), t)
        /\ Unused(marks', t)
        /\ InRegistry(tags', t))
       => CleanupPending(timers', t)]_vars

\* C7: neither a chunk-scope removal nor its deferred clean-up takes from the
\* registry a tag that a span of the document carries when the clean-up runs,
\* be it on another chunk or applied again since the removal.
C7_CleanupKeepsUsedTags ==
  [][/\ (tags' # tags
           => \A r \in RemovalLists, pos \in TextPos : ~ChunkRemoval(r, pos))
     /\ ((Len(timers') < Len(timers) /\ FireCleanup)
           => \A i \in 1..Len(tags) :
                ~Unused(marks, tags[i].id)
                  => \E j \in 1..Len(tags') : tags'[j] = tags[i])]_vars

\* A clean-up found its tag on a span and kept it in the registry.
C7_Witness ==
  /\ last.op = "cleanup"
  /\ \E i \in 1..Len(last.ids) :
       InRegistry(tags, last.ids[i]) /\ ~Unused(marks, last.ids[i])

\* Every tag id on every span has a registry entry.
NoDanglingIds ==
  \A p \in TextPos :
    \A i \in 1..Len(TagIdsOf(marks[p])) : InRegistry(tags, TagIdsOf(marks[p])[i])

\* A step of one of the engine operations.
EngineStep ==
  \/ \E name \in Names, color \in Colors : CreateTag(name, color)
  \/ \E tagId \in UsedIds : AssignExistingTag(tagId)
  \/ \E r \in RemovalLists, pos \in TextPos : ChunkRemoval(r, pos)
  \/ \E r \in RemovalLists : RemoveTagsFromDocument(r) \/ BulkRemoveFromDocument(r)
  \/ \E tagId \in UsedIds : DeleteTagEntirely(tagId)
  \/ FireCleanup
  \/ \E r \in RemovalLists, pos \in TextPos : BulkRemoveFromChunk(r, pos)
  \/ \E pos \in TextPos : RemoveAllTags(pos)

\* C8: from a state where every tag id on every span has a registry entry, an
\* engine operation (create, assign, chunk removal, document removal, bulk
\* removal, delete entirely, deferred clean-up) leads to a state where every
\* tag id on every span has a registry entry; so it is after any sequence of them.
C8_NoDanglingIds ==
  [][(NoDanglingIds /\ ~NoDanglingIds') => ~EngineStep]_vars

\* A document-wide removal changed the document and left a tagged span behind.
C8_Witness ==
  /\ last.op \in {"removeTagsFromDocument", "bulkRemoveFromDocument"}
  /\ last.changed
  /\ NoDanglingIds
  /\ Len(tags) > 0
  /\ \E p \in TextPos : marks[p] # NoMark

\* C9: in every reachable state no two adjacent spans carry the same set of
\* tag ids; spans that come to have the same ids are one span.
C9_NoEqualNeighbours ==
  \A p \in Chunks(marks) :
    LET q == NodeEnd(marks, p)
    IN (q \in Chunks(marks)) => Range(TagIdsOf(marks[p])) # Range(TagIdsOf(marks[q]))

\* C10: applying the same tag to the same range twice in a row gives the
\* document and the registry of applying it once: the second application
\* changes neither, clears the stored selection and closes the dialog.
C10_ApplyTwice ==
  [][\A t \in UsedIds :
       (/\ last.op \in {"createTag", "assignExistingTag"}
        /\ last.ok
        /\ last.ids = <<t>>
        /\ selectedText = [from |-> last.from, to |-> last.to]
        /\ InRegistry(tags, t)
        /\ AssignExistingTag(t))
       => /\ marks' = marks
          /\ tags' = tags
          /\ selectedText' = NoSel
          /\ showTagDialog' = FALSE]_vars

\* C11: once a tag has been applied to a text range, the range keeps the tag
\* and the registry keeps the tag's entry through every later step that is not
\* a removal or deletion of that tag.
C11_TagPersists ==
  [][\A t \in UsedIds :
       ~ConfirmDeleteTag(t) =>
         /\ \A p \in TextPos :
              Includes(TagIdsOf(marks[p]), t) => Includes(TagIdsOf(marks'[p]), t)
         /\ FindTag(tags, t) # NoTag => FindTag(tags', t) # NoTag]_vars

\* C12: for every tag id t and every document, the instance count reported by
\* getTagUsageInfo(t) is the number of spans whose tag-id list contains t as a
\* whole element, also when another id contains t as a substring, and
\* isMultipleUse is true exactly when that number is greater than 1.
C12_UsageCount ==
  call.fn = "getTagUsageInfo" =>
    LET spans == {p \in Chunks(marks) : Includes(TagIdsOf(marks[p]), call.tagId)}
    IN /\ call.result.instanceCount = Cardinality(spans)
       /\ call.result.isMultipleUse = (Cardinality(spans) > 1)

\* A removal entry point called with an empty list of tag ids.
EmptyRemoval ==
  \/ \E pos \in TextPos :
       \/ RemoveTagsFromChunk(<<>>, pos)
       \/ HookRemoveTagsFromChunk(<<>>, pos)
       \/ BulkRemoveFromChunk(<<>>, pos)
  \/ RemoveTagsFromDocument(<<>>)
  \/ BulkRemoveFromDocument(<<>>)

\* The removal entry points that return whether they removed something.
ReturningRemovals == {"removeTagsFromChunk", "hookRemoveTagsFromChunk", "removeTagsFromDocument"}

C14_NonUniformApplyRejected ==
  [][\A t \in UsedIds :
       Applies(t) =>
         /\ ~UniformIds(marks, selectedText.from, selectedText.to,
                        TagIdsOf(marks[selectedText.from]))
              => marks' = marks
         /\ \A p \in TextPos :
              (selectedText.from <= p /\ p < selectedText.to) =>
                \A i \in 1..Len(TagIdsOf(marks'[p])) :
                  \/ TagIdsOf(marks'[p])[i] = t
                  \/ Includes(TagIdsOf(marks[p]), TagIdsOf(marks'[p])[i])]_vars

\* C15: a chunk removal whose id list holds ids of the chunk and ids that are
\* not on the chunk is not rejected: it reports success and leaves the chunk
\* with its previous ids minus the requested ones.
C15_UnknownIdsTolerated ==
  [][\A r \in RemovalLists, pos \in TextPos :
       (/\ last'.op \in {"removeTagsFromChunk", "hookRemoveTagsFromChunk"}
        /\ last'.ids = r
        /\ pos \in Chunks(marks)
        /\ \E i \in 1..Len(r) : Includes(TagIdsOf(marks[pos]), r[i])
        /\ \E i \in 1..Len(r) : ~Includes(TagIdsOf(marks[pos]), r[i])
        /\ (RemoveTagsFromChunk(r, pos) \/ HookRemoveTagsFromChunk(r, pos)))
       => /\ last'.ok
          /\ TagIdsOf(marks'[pos]) = Without(TagIdsOf(marks[pos]), r)]_vars

\* C16: validateTagRemoval(current, toRemove) is invalid with a warning when
\* toRemove is empty; invalid with a warning that lists exactly the requested
\* ids not in current when there are any; valid otherwise; and for a non-empty
\* toRemove it carries the removes-all warning exactly when toRemove, as a set,
\* is the set of current ids.
C16_ValidateTagRemoval ==
  call.fn = "validateTagRemoval" =>
    LET current == call.tagIds
        toRemove == call.tagsToRemove
        res == call.result
        notFound == {id \in Range(toRemove) : ~Includes(current, id)}
    IN /\ Len(toRemove) = 0 => (~res.isValid /\ Len(res.warnings) > 0)
       /\ (Len(toRemove) > 0 /\ notFound # {}) =>
            /\ ~res.isValid
            /\ \E i \in 1..Len(res.warnings) :
                 /\ res.warnings[i].kind = "Tags not found in this chunk"
                 /\ Range(res.warnings[i].ids) = notFound
       /\ (Len(toRemove) > 0 /\ notFound = {}) => res.isValid
       /\ Len(toRemove) > 0 =>
            ((\E i \in 1..Len(res.warnings) :
                res.warnings[i].kind =
                  "Removing all tags will untagged this text chunk completely")
             <=> Range(toRemove) = Range(current))

\* C17: in every reachable state, loaded content included, no span's tag-id
\* list holds an id twice.
C17_DuplicateFree ==
  \A p \in TextPos :
    \A i \in 1..Len(TagIdsOf(marks[p])), j \in 1..Len(TagIdsOf(marks[p])) :
      TagIdsOf(marks[p])[i] = TagIdsOf(marks[p])[j] => i = j

\* C18: the registry never holds two entries with the same id: every tag made
\* by createTag gets an id no entry has, also when two tags are created within
\* the same clock millisecond.
C18_UniqueIds ==
  \A i \in 1..Len(tags), j \in 1..Len(tags) : tags[i].id = tags[j].id => i = j

BatchOps == {"bulkRemoveFromChunk", "removeAllTags", "bulkRemoveFromDocument", "cleanup"}

\* A step of a bulk removal or of a clean-up callback.
BatchStep ==
  \/ FireCleanup
  \/ \E r \in RemovalLists : BulkRemoveFromDocument(r)
  \/ \E r \in RemovalLists, pos \in TextPos : BulkRemoveFromChunk(r, pos)
  \/ \E pos \in TextPos : RemoveAllTags(pos)

\* C19: in a bulk removal of several tags the per-id chunk removals leave the
\* registry to the clean-up callbacks, which run after the batch, and a tag that
\* leaves the registry in a bulk removal or in a clean-up is on no span of the
\* document as it is after all mutations of the batch.
C19_CleanupAfterBatch ==
  [][(last'.op \in BatchOps /\ BatchStep) =>
       /\ last'.op \in {"bulkRemoveFromChunk", "removeAllTags"} => tags' = tags
       /\ \A t \in UsedIds :
            (InRegistry(tags, t) /\ ~InRegistry(tags', t)) =>
              \A p \in TextPos : ~Includes(TagIdsOf(marks'[p]), t)]_vars

\* A bulk document removal of two tags has changed the document and emptied
\* the registry.
C19_Witness ==
  /\ last.op = "bulkRemoveFromDocument"
  /\ Len(last.ids) > 1
  /\ last.changed
  /\ tags = <<>>

\* C20: one single-tag chunk removal per id of S against the same chunk element
\* (bulkRemoveFromChunk, "Remove all tags") leaves the chunk with its previous
\* ids minus all of S, as one removeTagsFromChunk(S) is to; with S all the
\* chunk's ids the chunk ends up untagged.
C20_PerIdRemovalsRemoveAll ==
  [][\A pos \in TextPos :
       (/\ last'.op \in {"bulkRemoveFromChunk", "removeAllTags"}
        /\ pos \in Chunks(marks)
        /\ RemoveEachFromChunk(last'.op, last'.ids, pos))
       => TagIdsOf(marks'[pos]) = Without(TagIdsOf(marks[pos]), last'.ids)]_vars

\* The names of the ids of a list under a registry, an id without an entry
\* giving its placeholder name.
NamesOf(tagIds, reg) ==
  [i \in 1..Len(tagIds) |->
     IF InRegistry(reg, tagIds[i]) THEN FindTag(reg, tagIds[i]).name
     ELSE PlaceholderName[tagIds[i]]]

\* C21: whenever an apply or a removal writes a span with a non-empty tag-id
\* list, the span's title lists the names of its tags in tag-id order, an id
\* without a registry entry contributing the placeholder name "Tag {id}".
C21_TitleOfWrittenSpan ==
  [][last'.op \in {"createTag", "assignExistingTag", "deleteTagEntirely"} =>
       \A p \in TextPos :
         (marks'[p] # marks[p] /\ marks'[p] # NoMark) =>
           marks'[p].title = NamesOf(TagIdsOf(marks'[p]), tags')]_vars

\* C22: generateUpdatedTagStyle returns the empty descriptor for an empty id
\* list, the single-tag descriptor for a list of one id, with the placeholder
\* name and the default color when the id has no registry entry, and the
\* multi-tag descriptor only for lists of two or more ids.
C22_DescriptorByLength ==
  call.fn = "generateUpdatedTagStyle" =>
    LET ids == call.remainingTagIds
        res == call.result
    IN /\ Len(ids) = 0 => res = [style |-> <<>>, title |-> <<>>, class |-> ""]
       /\ Len(ids) = 1 =>
            /\ res.class = "my-tag outer-chunk"
            /\ res.style = <<"outer", IF InRegistry(call.tags, ids[1])
                                      THEN FindTag(call.tags, ids[1]).color
                                      ELSE "#3B82F6">>
            /\ res.title = NamesOf(ids, call.tags)
       /\ res.class = "my-tag inner-chunk" => Len(ids) > 1

\* C23: a span's style, title and class are a function of its tag-id list and
\* the registry at its last mutation, whether the list was reached by applying
\* or by removing tags. Every registry entry of Spec has the same name and
\* color and every id written to a span has an entry, so there two characters
\* with the same non-empty tag-id list have the same style, title and class.
C23_PresentationByIds ==
  \A p \in TextPos, q \in TextPos :
    (marks[p] # NoMark /\ TagIdsOf(marks[p]) = TagIdsOf(marks[q])) =>
      /\ marks[p].style = marks[q].style
      /\ marks[p].title = marks[q].title
      /\ marks[p].class = marks[q].class

\* C24: once the content effect has loaded the document, every tag id on a
\* span of the loaded content has a registry entry, whatever other classes the
\* span's element has.
C24_LoadedIdsRegistered ==
  last.op = "contentEffect" => NoDanglingIds

C26_NoBlankSelection ==
  /\ selectedText # NoSel =>
       /\ selectedText.from < selectedText.to
       /\ ~Blank(selectedText.from, selectedText.to)
  /\ (last.op \in {"createTag", "assignExistingTag"} /\ last.ok) =>
       /\ last.from < last.to
       /\ ~Blank(last.from, last.to)

\* C27: removeTag(id) never fails; for an id that is not in the registry it
\* leaves the registry as it was, and a second removeTag(id) on its result
\* removes nothing more, so calling it twice leaves the registry of calling it
\* once.
C27_RemoveTagIdempotent ==
  [][\A tagId \in Ids :
       RemoveTag(tagId) =>
         /\ last'.ok
         /\ (FindTag(tags, tagId) = NoTag => tags' = tags)
         /\ RemoveTagFrom(tags', tagId) = tags']_vars

\* removeTag was called with an id that never had an entry, on a registry
\* that holds entries.
C27_Witness ==
  /\ last.op = "removeTag"
  /\ last.ids = <<"tag-12">>
  /\ tags # <<>>

\* The id-to-{name, color, isHighlighted} mapping of a registry: its entries
\* without their order.
MappingOf(reg) == {reg[i] : i \in 1..Len(reg)}

C29_AssignKeepsRegistry ==
  [][\A tagId \in UsedIds :
       AssignExistingTag(tagId) =>
         /\ tags' = tags
         /\ (\A i \in 1..Len(tags) : tags[i].id # tagId) => marks' = marks]_vars

\* assignExistingTag was called with an id that has no entry, while a
\* selection was stored and the registry held another tag.
C29_Witness ==
  /\ last.op = "assignExistingTag"
  /\ ~last.ok
  /\ last.from < last.to
  /\ tags # <<>>
  /\ \A i \in 1..Len(tags) : tags[i].id # last.ids[1]

\* The registry entries of the ids of tagIds, in the order of tagIds, ids
\* without an entry left out.
EntriesInChunkOrder(tagIds, reg) ==
  LET known == SelectSeq(tagIds, LAMBDA id : InRegistry(reg, id))
  IN [i \in 1..Len(known) |-> FindTag(reg, known[i])]

\* C30: the tags listed for a chunk, by getTagsInChunk and by the context
\* menu, are the registry entries of the chunk's tag ids in the chunk's id
\* order, ids without an entry left out.
C30_TagsInChunkOrder ==
  call.fn = "getTagsInChunk" =>
    /\ call.result = EntriesInChunkOrder(call.tagIds, call.tags)
    /\ call.hook = EntriesInChunkOrder(call.tagIds, call.tags)
    /\ call.menu = EntriesInChunkOrder(call.tagIds, call.tags)

\* C31: a context-menu request on a tagged chunk leaves the bulk removal
\* dialog open and the context menu not open when the chunk carries three or
\* more tags, and the context menu open and the bulk removal dialog not open
\* when it carries one or two.
C31_MenuByTagCount ==
  [][\A pos \in TextPos :
       EditorContextMenu(pos) =>
         IF Len(TagIdsOf(marks[pos])) >= 3
         THEN bulkRemovalDialog'.isOpen /\ ~contextMenu'.isOpen
         ELSE contextMenu'.isOpen /\ ~bulkRemovalDialog'.isOpen]_vars

\* No timer of the tooltip hook is due at this instant.
NoTimerDue == tip.showTimeout # 0 /\ tip.hideTimeout # 0

\* C32: when the pointer has stayed on a tagged element for the show delay or
\* longer, with no scroll, resize or teardown since it entered, a tooltip for
\* that element is showing, whether the pointer came from outside or from
\* another tagged element.
C32_TooltipWhileHovering ==
  (tip.mounted /\ tip.pointer # "none" /\ tip.hover >= ShowDelay /\ NoTimerDue)
    => /\ tip.activeTooltip # 0
       /\ tip.body[tip.activeTooltip] = tip.pointer

\* C33: once the pointer has been off every tagged element for the hide
\* delay, no tooltip is left in the page; a scroll or resize removes the
\* tooltip at once and cancels both timers, and no tooltip is in the page
\* until the pointer enters an element again.
C33_TooltipGoneAfterLeave ==
  /\ (tip.mounted /\ tip.pointer = "none" /\ tip.away >= HideDelay /\ NoTimerDue)
       => InBody(tip) = {}
  /\ (tip.mounted /\ tip.scrolled)
       => InBody(tip) = {} /\ tip.showTimeout = -1 /\ tip.hideTimeout = -1

\* C34: at most one tooltip element is in the page at any moment, and once the
\* pointer is off every tagged element and no timer is pending, none is.
C34_AtMostOneTooltip ==
  /\ tip.mounted => Cardinality(InBody(tip)) <= 1
  /\ (tip.mounted /\ tip.pointer = "none" /\ tip.showTimeout = -1 /\ tip.hideTimeout = -1)
       => InBody(tip) = {}

\* The component with its scheduling: React runs an effect that is due.
SpecEditorLive == SpecEditor /\ WF_vars(ContentEffect)

\* C35: after the component mounts with content, the content effect stops
\* re-running itself: a state is reached in which no effect run is pending.
C35_EffectSettles == <>(~effectPending)

\* C36: a deferred callback of a removal acts only on the store's live editor:
\* a clean-up callback that runs after the editor it was scheduled for has
\* been destroyed takes no tag out of the registry.
C36_CallbackOnLiveEditor ==
  [][(FireCleanup /\ staleTimers > 0) => tags' = tags]_vars

\* The Editor objects that were constructed and not destroyed.
LiveEditors == {k \in 1..Len(editors) : editors[k] = "live"}

\* The store's editor is the one live Editor object, or null when there is none.
EditorHeld == LiveEditors = IF editor = 0 THEN {} ELSE {editor}

\* C39: the store holds at most one live editor.  initializeEditor with an
\* editor in the store returns that editor and constructs nothing; when the
\* constructor throws the store's editor stays null and null is returned;
\* destroyEditor destroys the store's editor and leaves null, and the next
\* initializeEditor constructs a fresh Editor object.
C39_OneLiveEditor ==
  /\ [](EditorHeld /\ Cardinality(LiveEditors) <= 1)
  /\ [](call.fn = "initializeEditor" => call.result = editor)
  /\ [](call.fn = "destroyEditor" => editor = 0)
  /\ [][/\ (editor # 0 /\ editor' # 0) => (editor' = editor /\ editors' = editors)
        /\ (editor # 0 /\ editor' = 0) =>
              editors' = [editors EXCEPT ![editor] = "destroyed"]
        /\ (editor = 0 /\ editor' = 0) => editors' = editors
        /\ (editor = 0 /\ editor' # 0) =>
              /\ editor' \notin 1..Len(editors)
              /\ editors' = Append(editors, "live")
              /\ call'.fn = "initializeEditor"]_vars

\* An editor was destroyed and initializeEditor then constructed a second one.
C39_Witness ==
  /\ editor = 2
  /\ editors = <<"destroyed", "live">>
  /\ call = [fn |-> "initializeEditor", result |-> 2]

\* The store actions that change the registry.
RegistryActions ==
  {"setTags", "addTag", "removeTag", "updateTag", "toggleTagHighlight", "clearAllData"}

\* C37: after every registry-changing store action the tag list in the
\* persistent storage equals the registry, so that loadPersistedTags right
\* after the action would leave the registry as it is.
C37_StorageFollowsRegistry ==
  last.op \in RegistryActions => LoadTags(storage) = tags

\* C38: between loadContent calls isContentLoading is false, after a
\* successful load and after a failed one, and the conversion runs at most
\* once: a loadContent call made after the first one leaves content,
\* isContentLoading and contentError as they are.
C38_ContentLoadedOnce ==
  /\ [](~load.isContentLoading /\ load.conversions <= 1)
  /\ [][load.conversions >= 1 => load' = load]_vars

\* A loadContent call was skipped after a load that failed.
C38_Witness ==
  /\ call = [fn |-> "loadContent", result |-> "skipped"]
  /\ load.content = ErrorContent
  /\ load.contentError # "null"
  /\ load.conversions = 1


====
